---- MODULE Spec2Model ----
(***************************************************************************)
(* TrendMatrix front end: the time-series generators of the local data     *)
(* service, the list filters of the views, and the load / render state     *)
(* machines of the views.                                                  *)
(*                                                                         *)
(* Three specifications share the module:                                  *)
(*   SpecSeries  the time-series fetches of local-db.service.ts and the    *)
(*               dashboard's generateChartData;                            *)
(*   SpecFilter  the computed list filters of the views;                   *)
(*   Spec        the views' load functions, timers and chart renders.      *)
(***************************************************************************)
EXTENDS Integers, Sequences, FiniteSets, TLC

VARIABLES
  \* ---- SpecSeries: the clock, Math.random and the last series fetched
  today,        \* new Date(): the local calendar day, [y, m, d]
  midnights,    \* how many midnights the clock has passed
  rngState,     \* hidden state of Math.random
  call,         \* the last series fetch: [kind, days, at (the day it ran)],
                \* and the query of its url when it went through ApiService
  series,       \* the sequence that fetch resolved with
  \* ---- SpecFilter: the refs a filtering view reads
  filterView,       \* the mounted list view
  items,            \* protocols / top_collections / signals / hotProjects
  searchTerm,       \* searchTerm / searchQuery
  selectedCategory, \* selectedCategory / selectedSignalType / filterType
  zone,             \* the browser's time zone: local time minus UTC, in hours
  clock,            \* Date.now(), in hours since the epoch
  payFilter,        \* filter of the payment history (v-model of its form)
  paymentLoad,      \* the last loadPaymentHistory: its argument, test data, result
  \* ---- Spec: the mounted view, its refs and what it has in flight
  mounted,      \* the mounted view
  route,        \* route.params.id of a detail view
  refs,         \* the refs / reactive objects of the mounted view
  pending,      \* adapter calls in flight, per adapter method
  join,         \* the dashboard's Promise.all: settled fetches, in order
  charts,       \* the chart containers: the svg elements each one holds
  drawCount,    \* how many draws the containers of the view have had
  timers,       \* pending setTimeout callbacks
  console,      \* the last console.error: [msg, reason]
  torn,         \* the view in mounted has been unmounted: no template, no user
  \* ---- SpecStore: the subscription store (pinia) and its service
  store,        \* the state of the store
  storeCall,    \* the store action last dispatched: [action, outcome]
  \* ---- SpecBars: a bar chart and the container it is drawn into
  clientWidth,  \* container.clientWidth, in px
  drawn,        \* the bar chart the container holds: [chart, bars, width, from, band]
  \* ---- SpecPages: the pager of the signal history
  currentPage,  \* currentPage of the signal history
  \* ---- SpecAuth: the auth store (pinia), its service and localStorage
  auth,         \* the state of the auth store
  localStorage, \* the items 'token' and 'user' of localStorage
  authCalls,    \* the async actions of the auth store that are in flight
  afterLogout,  \* "called": logout is in flight, "settled": it has settled; "no"
                \* again as soon as a login or register is called after it
  \* ---- SpecPay: the payment store (pinia)
  payStore,     \* the state of the payment store
  payCall       \* its action last called: [action, arg, outcome, clean]

seriesVars == <<today, midnights, rngState, call, series>>
payVars == <<zone, clock, payFilter, paymentLoad>>
filterVars == <<filterView, items, searchTerm, selectedCategory, payVars>>
storeVars == <<store, storeCall>>
barVars == <<clientWidth, drawn>>
authVars == <<auth, localStorage, authCalls, afterLogout>>
payStoreVars == <<payStore, payCall>>
sideVars == <<barVars, currentPage, authVars, payStoreVars>>
notBars == <<currentPage, authVars, payStoreVars>>
notPages == <<barVars, authVars, payStoreVars>>
notAuth == <<barVars, currentPage, payStoreVars>>
notPay == <<barVars, currentPage, authVars>>
coreVars ==
  <<mounted, route, refs, pending, join, charts, drawCount, timers, console, torn, storeVars>>
viewVars == <<coreVars, sideVars>>
vars == <<seriesVars, filterVars, viewVars>>

(***************************************************************************)
(* Bounds of the model.                                                    *)
(***************************************************************************)
MaxWindow == 367     \* largest window a series fetch is called with
SmallWindow == 9     \* every window 0 .. SmallWindow is also called
MaxClockDays == 1    \* how many midnights the clock passes
MaxSeed == 1         \* Math.random starts in one of the states 0..MaxSeed
MaxList == 3         \* the adapter delivers every list of up to MaxList items
MaxId == 2           \* ids of the records the adapter delivers to a view
MaxInFlight == 2     \* loads of one view that overlap
MaxDraws == 2        \* draws counted per view (the counter saturates)
MaxLimit == 6        \* the largest limit passed to getHotProjects

(***************************************************************************)
(* The calendar of ECMAScript Date (local time, proleptic Gregorian).      *)
(***************************************************************************)
IsLeapYear(y) == (y % 4 = 0 /\ y % 100 # 0) \/ y % 400 = 0

DaysInMonth(y, m) ==
  CASE m \in {1, 3, 5, 7, 8, 10, 12} -> 31
    [] m \in {4, 6, 9, 11} -> 30
    [] OTHER -> IF IsLeapYear(y) THEN 29 ELSE 28

\* ECMAScript DayFromYear: the day number of January 1st of year y.
DayFromYear(y) ==
  365 * (y - 1970) + ((y - 1969) \div 4) - ((y - 1901) \div 100)
    + ((y - 1601) \div 400)

DaysBeforeMonth(y, m) ==
  LET RECURSIVE Sum(_)
      Sum(k) == IF k = 0 THEN 0 ELSE DaysInMonth(y, k) + Sum(k - 1)
  IN Sum(m - 1)

\* ECMAScript MakeDay(year, month, date): `dt` may lie outside the month,
\* which is how setDate(getDate() - i) rolls back over months and years.
MakeDay(y, m, dt) == DayFromYear(y) + DaysBeforeMonth(y, m) + dt - 1

Years == 2022 .. 2026

\* ECMAScript YearFromTime / MonthFromTime / DateFromTime.
CivilFromDay(n) ==
  LET y == CHOOSE yy \in Years : DayFromYear(yy) <= n /\ n < DayFromYear(yy + 1)
      r == n - DayFromYear(y)
      m == CHOOSE mm \in 1 .. 12 :
             DaysBeforeMonth(y, mm) <= r /\ r < DaysBeforeMonth(y, mm) + DaysInMonth(y, mm)
  IN [y |-> y, m |-> m, d |-> r - DaysBeforeMonth(y, m) + 1]

\* The same, tabulated once for the years of the model.
DayTable ==
  [n \in DayFromYear(2022) .. (DayFromYear(2027) - 1) |-> CivilFromDay(n)]

DateFromDay(n) == DayTable[n]

\* const date = new Date(today); date.setDate(date.getDate() - i)
SetDateBack(t, i) == DateFromDay(MakeDay(t.y, t.m, t.d - i))

\* `${date.getMonth() + 1}月${date.getDate()}日`: month and day, no year.
DateStr(date) == <<date.m, date.d>>

(***************************************************************************)
(* Math.random: a generator with hidden state; the k-th draw after state s *)
(* is a number in [0, 1), kept in thousandths.                             *)
(***************************************************************************)
RandomAt(s, k) == ((s + k) * 619 + 137) % 1000

\* Math.floor(Math.random() * range) + base
FloorRandom(s, k, range, base) == ((RandomAt(s, k) * range) \div 1000) + base

(***************************************************************************)
(* local-db.service.ts: the time-series generators.                        *)
(***************************************************************************)
\* The loop written with i > 0: the newest day is never pushed.
LoopCountExclusive(n) == IF n > 1 THEN n - 1 ELSE 0

\* for (let i = days - 1; i >= 0; i--): the number of iterations.
LoopCount(n) == IF n > 0 THEN n ELSE 0

\* The loop index i of the k-th point pushed (k = 1 is the oldest day).
LoopIndex(n, k) == n - k

\* generateTestChartData(days, type), called on day t with Math.random in
\* state s.  One draw per point.
generateTestChartData(t, s, n, type) ==
  [k \in 1 .. LoopCount(n) |->
     LET dateStr == DateStr(SetDateBack(t, LoopIndex(n, k)))
     IN IF type = "signals"
        THEN [date |-> dateStr, signals |-> FloorRandom(s, k, 50, 50), activity |-> 0]
        ELSE [date |-> dateStr, signals |-> 0, activity |-> FloorRandom(s, k, 30, 60)]]

getSignalTrendData(t, s, n) == generateTestChartData(t, s, n, "signals")

getProjectActivityData(t, s, n) == generateTestChartData(t, s, n, "activity")

\* generateTestNftTrendData(days): two draws per point; the base values drift.
\* Volumes are whole dollars, floor prices thousandths of a SOL.
generateTestNftTrendData(t, s, n) ==
  LET volumeVariation(k) == (RandomAt(s, 2 * k - 1) * 20000) - 10000000
      floorPriceVariation(k) == ((RandomAt(s, 2 * k) * 300) \div 1000) - 150
      Max0(x) == IF x > 0 THEN x ELSE 0
      \* baseVolume += volumeVariation * 0.3; baseFloorPrice += floorPriceVariation * 0.2
      Drift(b, k) ==
        [volume |-> b.volume + (volumeVariation(k) * 3) \div 10,
         floor |-> b.floor + (floorPriceVariation(k) * 2) \div 10]
      \* The base values on entry to iterations lo .. hi, b being those of lo.
      RECURSIVE Bases(_, _, _)
      Bases(lo, hi, b) ==
        IF lo > hi THEN <<>>
        ELSE IF lo = hi THEN <<b>>
        ELSE LET mid == (lo + hi) \div 2
                 left == Bases(lo, mid, b)
             IN left \o Bases(mid + 1, hi, Drift(left[Len(left)], mid))
      base == Bases(1, LoopCount(n), [volume |-> 30000000, floor |-> 700])
  IN [k \in 1 .. LoopCount(n) |->
        [date |-> DateStr(SetDateBack(t, LoopIndex(n, k))),
         volume |-> Max0(base[k].volume + volumeVariation(k)),
         floor_price |-> Max0(base[k].floor + floorPriceVariation(k))]]

getNftTrendData(t, s, n) == generateTestNftTrendData(t, s, n)

\* The dashboard's own generateChartData(days, type).  Prices are hundredths.
generateChartData(t, s, n, type) ==
  [k \in 1 .. LoopCount(n) |->
     [date |-> DateStr(SetDateBack(t, LoopIndex(n, k))),
      signals |-> IF type = "signals" THEN 40 + (RandomAt(s, k) * 20) \div 1000 ELSE 0,
      activity |-> IF type = "activity" THEN 50 + (RandomAt(s, k) * 50) \div 1000 ELSE 0,
      price |-> IF type = "price" THEN 9750 + (RandomAt(s, k) * 500) \div 1000 ELSE 0,
      volume |-> IF type = "volume" THEN 750000 + RandomAt(s, k) * 500 ELSE 0]]

\* Math.random after `draws` calls.
RngAfter(s, draws) == (s + draws) % (MaxSeed + 1)

(***************************************************************************)
(* SpecSeries: series fetches at any window, on any day of the clock.      *)
(***************************************************************************)
\* The days on which the clock starts: the eve of March 1st (a year after
\* a leap day) and the eve of a new year.
StartDays ==
  { [y |-> 2025, m |-> 2, d |-> 28], [y |-> 2025, m |-> 12, d |-> 31] }

Windows == (0 .. SmallWindow) \cup {MaxWindow - 1, MaxWindow}

ChartTypes == {"signals", "activity", "price", "volume"}

\* The methods of localDbService the views call.
AdapterCalls ==
  { "getDashboardMetrics", "getRecentSignals", "getHotProjects", "getDefiProtocols",
    "getNftMarketMetrics", "getNftTrendData", "getUserSubscriptions" }

\* The template refs of the chart containers.
ChartNames ==
  { "signalTrendChart", "projectActivityChart", "priceTrendChart", "volumeTrendChart",
    "volumeChartRef", "floorPriceChartRef", "priceChart", "volumeChart",
    "categoryDistributionChart", "activityTrendChart" }

NoLog == [msg |-> "", reason |-> ""]

\* The refs of a view that has none.
NoRefs == <<>>

\* state: () => ({ plans, subscriptions, currentSubscription, loading, error })
\* of the subscription store; 0 stands for null, "" for the null error.
StoreSetup ==
  [subscriptions |-> <<>>, currentSubscription |-> 0, loading |-> FALSE, error |-> ""]

NoStoreCall == [action |-> "none", outcome |-> "none"]

\* The container holds no bar chart.
NoBars == [chart |-> "none", bars |-> 0, width |-> 0, from |-> 0, band |-> [num |-> 0, den |-> 1]]

\* No bar chart is looked at.
BarsIdle ==
  /\ clientWidth = 0
  /\ drawn = NoBars

\* An item localStorage does not hold (getItem answers null).
Absent == [kind |-> "absent", of |-> "null"]

\* The auth store of a browser that holds no session, before any action.
AuthIdle ==
  /\ auth = [user |-> "null", token |-> "null", isAuthenticated |-> FALSE,
             loading |-> FALSE, error |-> "null"]
  /\ localStorage = [token |-> Absent, user |-> Absent]
  /\ authCalls = {}
  /\ afterLogout = "no"

\* An array of the payment store, or the {} it got where an array was due.
Arr(list) == [array |-> TRUE, of |-> list]
Obj == [array |-> FALSE, of |-> <<>>]

\* defaultPaymentMethod: null
NoMethod == [id |-> 0, is_default |-> FALSE]

\* state() of the payment store
PayIdle ==
  /\ payStore = [paymentMethods |-> Arr(<<>>), payments |-> Arr(<<>>),
                 defaultPaymentMethod |-> NoMethod, loading |-> FALSE, error |-> "null"]
  /\ payCall = [action |-> "none", arg |-> 0, outcome |-> "none", clean |-> TRUE]

SideIdle ==
  /\ BarsIdle
  /\ currentPage = 1
  /\ AuthIdle
  /\ PayIdle

\* No view is mounted.
ViewsIdle ==
  /\ mounted = "none"
  /\ route = 0
  /\ refs = NoRefs
  /\ pending = [c \in AdapterCalls |-> 0]
  /\ join = <<>>
  /\ charts = [c \in ChartNames |-> <<>>]
  /\ drawCount = 0
  /\ timers = {}
  /\ console = NoLog
  /\ torn = FALSE
  /\ store = StoreSetup
  /\ storeCall = NoStoreCall
  /\ SideIdle

\* An unset date of the payment filter (start_date: '').
NoDay == 0

\* filter = ref({ start_date: '', end_date: '', status: '', limit: 20, offset: 0 })
FilterSetup ==
  [start_date |-> NoDay, end_date |-> NoDay, status |-> "", limit |-> 20, offset |-> 0]

\* loadPaymentHistory has not run.
NoLoad == [filters |-> <<>>, payments |-> <<>>, paymentHistory |-> <<>>]

FilterIdle ==
  /\ filterView = "none"
  /\ items = <<>>
  /\ searchTerm = <<>>
  /\ selectedCategory = ""
  /\ zone = 0
  /\ clock = 0
  /\ payFilter = FilterSetup
  /\ paymentLoad = NoLoad

InitSeries ==
  /\ today \in StartDays
  /\ midnights = 0
  /\ rngState \in 0 .. MaxSeed
  /\ call = [kind |-> "none", days |-> 0, at |-> today]
  /\ series = <<>>
  /\ FilterIdle
  /\ ViewsIdle

\* The local day changes at midnight.
Midnight ==
  /\ midnights < MaxClockDays
  /\ midnights' = midnights + 1
  /\ today' = DateFromDay(MakeDay(today.y, today.m, today.d) + 1)
  /\ UNCHANGED <<rngState, call, series>>
  /\ UNCHANGED <<filterVars, viewVars>>

GetSignalTrendData(n) ==
  /\ call.kind = "none"
  /\ series' = getSignalTrendData(today, rngState, n)
  /\ call' = [kind |-> "signalTrend", days |-> n, at |-> today]
  /\ rngState' = RngAfter(rngState, LoopCount(n))
  /\ UNCHANGED <<today, midnights>>
  /\ UNCHANGED <<filterVars, viewVars>>

GetProjectActivityData(n) ==
  /\ call.kind = "none"
  /\ series' = getProjectActivityData(today, rngState, n)
  /\ call' = [kind |-> "projectActivity", days |-> n, at |-> today]
  /\ rngState' = RngAfter(rngState, LoopCount(n))
  /\ UNCHANGED <<today, midnights>>
  /\ UNCHANGED <<filterVars, viewVars>>

GetNftTrendData(n) ==
  /\ call.kind = "none"
  /\ series' = getNftTrendData(today, rngState, n)
  /\ call' = [kind |-> "nftTrend", days |-> n, at |-> today]
  /\ rngState' = RngAfter(rngState, 2 * LoopCount(n))
  /\ UNCHANGED <<today, midnights>>
  /\ UNCHANGED <<filterVars, viewVars>>

GenerateChartData(n, type) ==
  /\ call.kind = "none"
  /\ series' = generateChartData(today, rngState, n, type)
  /\ call' = [kind |-> "dashboardChart", days |-> n, at |-> today]
  /\ rngState' = RngAfter(rngState, LoopCount(n))
  /\ UNCHANGED <<today, midnights>>
  /\ UNCHANGED <<filterVars, viewVars>>

(***************************************************************************)
(* ApiService.get: the trend urls.  The text after '?days=' is a sequence  *)
(* of characters; a url without it gives undefined, which parseInt reads   *)
(* as it reads the empty text.                                             *)
(***************************************************************************)
DigitChars == <<"0", "1", "2", "3", "4", "5", "6", "7", "8", "9">>

IsDigit(c) == \E d \in 1 .. Len(DigitChars) : DigitChars[d] = c

DigitValue(c) == (CHOOSE d \in 1 .. Len(DigitChars) : DigitChars[d] = c) - 1

\* The value of the digits of str from position i up to the first character
\* that is not a digit, after the value acc of the digits before i.
RECURSIVE DigitsFrom(_, _, _)
DigitsFrom(str, i, acc) ==
  IF i > Len(str) \/ ~IsDigit(str[i]) THEN acc
  ELSE DigitsFrom(str, i + 1, 10 * acc + DigitValue(str[i]))

\* parseInt(text): an optional sign, then the longest run of digits; NaN
\* when no digit follows.
parseInt(str) ==
  LET signed == Len(str) > 0 /\ str[1] \in {"-", "+"}
      first == IF signed THEN 2 ELSE 1
  IN  IF first > Len(str) \/ ~IsDigit(str[first])
      THEN [nan |-> TRUE, value |-> 0]
      ELSE [ nan |-> FALSE,
             value |-> IF signed /\ str[1] = "-"
                       THEN 0 - DigitsFrom(str, first, 0)
                       ELSE DigitsFrom(str, first, 0) ]

\* parseInt(url.split('?days=')[1]) || 7: NaN and 0 are falsy.
DaysOrSeven(str) ==
  IF parseInt(str).nan \/ parseInt(str).value = 0 THEN 7 ELSE parseInt(str).value

\* The texts a caller puts after '?days='.
Queries ==
  { <<>>, <<"7">>, <<"0">>, <<"-", "3">>, <<"a">>, <<"2", ".", "5">>, <<"1", "4">>,
    <<"+", "2">>, <<"3", "d">> }

\* get('/signals/history/trend?days=' + text)
ApiGetSignalTrend(str) ==
  /\ call.kind = "none"
  /\ series' = getSignalTrendData(today, rngState, DaysOrSeven(str))
  /\ call' = [kind |-> "apiSignalTrend", days |-> DaysOrSeven(str), at |-> today,
              query |-> str]
  /\ rngState' = RngAfter(rngState, LoopCount(DaysOrSeven(str)))
  /\ UNCHANGED <<today, midnights>>
  /\ UNCHANGED <<filterVars, viewVars>>

\* get('/solana/activity/trend?days=' + text)
ApiGetActivityTrend(str) ==
  /\ call.kind = "none"
  /\ series' = getProjectActivityData(today, rngState, DaysOrSeven(str))
  /\ call' = [kind |-> "apiActivityTrend", days |-> DaysOrSeven(str), at |-> today,
              query |-> str]
  /\ rngState' = RngAfter(rngState, LoopCount(DaysOrSeven(str)))
  /\ UNCHANGED <<today, midnights>>
  /\ UNCHANGED <<filterVars, viewVars>>

(***************************************************************************)
(* local-db.service.ts: the entity lists.  Scores as written; TVL in       *)
(* millions and 24h volume in hundred thousands of the source's figures.   *)
(***************************************************************************)
\* The array literal of getHotProjects.
HotProjects ==
  << [id |-> 1, name |-> "Solana", score |-> 92],
     [id |-> 2, name |-> "Serum", score |-> 88],
     [id |-> 3, name |-> "Raydium", score |-> 85],
     [id |-> 4, name |-> "Marinade Finance", score |-> 82],
     [id |-> 5, name |-> "Star Atlas", score |-> 79] >>

\* The array literal of getDefiProtocols.
DefiProtocols ==
  << [id |-> 1, name |-> "Raydium", tvl |-> 450, volume_24h |-> 1200],
     [id |-> 2, name |-> "Marinade Finance", tvl |-> 890, volume_24h |-> 250],
     [id |-> 3, name |-> "Serum", tvl |-> 320, volume_24h |-> 850],
     [id |-> 4, name |-> "Jupiter", tvl |-> 150, volume_24h |-> 2500],
     [id |-> 5, name |-> "Solana Name Service", tvl |-> 85, volume_24h |-> 50] >>

\* The array literal of getTopNftCollections.
TopNftCollections ==
  << [id |-> 1, name |-> "Degenerate Ape Academy", volume_24h |-> 120],
     [id |-> 2, name |-> "Solana Monkey Business", volume_24h |-> 95],
     [id |-> 3, name |-> "Okay Bears", volume_24h |-> 78],
     [id |-> 4, name |-> "Mad Lads", volume_24h |-> 52],
     [id |-> 5, name |-> "Goblins", volume_24h |-> 31] >>

\* array.slice(0, limit) for a limit that is not negative.
SliceTo(array, limit) ==
  SubSeq(array, 1, IF limit < Len(array) THEN limit ELSE Len(array))

getHotProjects(limit) == SliceTo(HotProjects, limit)

getDefiProtocols == DefiProtocols

getTopNftCollections == TopNftCollections

\* The limits a caller passes (the views pass 10; ApiService passes
\* params.limit || 5; the default is 5).
Limits == 0 .. MaxLimit

ListKinds == {"hotProjects", "defiProtocols", "topNftCollections"}

GetHotProjects(limit) ==
  /\ call.kind = "none"
  /\ series' = getHotProjects(limit)
  /\ call' = [kind |-> "hotProjects", days |-> 0, at |-> today, limit |-> limit]
  /\ UNCHANGED <<today, midnights, rngState>>
  /\ UNCHANGED <<filterVars, viewVars>>

GetDefiProtocols ==
  /\ call.kind = "none"
  /\ series' = getDefiProtocols
  /\ call' = [kind |-> "defiProtocols", days |-> 0, at |-> today]
  /\ UNCHANGED <<today, midnights, rngState>>
  /\ UNCHANGED <<filterVars, viewVars>>

\* getNftMarketMetrics: top_collections of the metrics it resolves with.
GetTopNftCollections ==
  /\ call.kind = "none"
  /\ series' = getTopNftCollections
  /\ call' = [kind |-> "topNftCollections", days |-> 0, at |-> today]
  /\ UNCHANGED <<today, midnights, rngState>>
  /\ UNCHANGED <<filterVars, viewVars>>

\* The caller drops the series (entities are discarded on re-fetch or teardown).
DiscardSeries ==
  /\ call.kind # "none"
  /\ call' = [kind |-> "none", days |-> 0, at |-> today]
  /\ series' = <<>>
  /\ UNCHANGED <<today, midnights, rngState>>
  /\ UNCHANGED <<filterVars, viewVars>>

NextSeries ==
  \/ Midnight
  \/ \E n \in Windows : GetSignalTrendData(n)
  \/ \E n \in Windows : GetProjectActivityData(n)
  \/ \E n \in Windows : GetNftTrendData(n)
  \/ \E n \in Windows, type \in ChartTypes : GenerateChartData(n, type)
  \/ \E str \in Queries : ApiGetSignalTrend(str)
  \/ \E str \in Queries : ApiGetActivityTrend(str)
  \/ \E limit \in Limits : GetHotProjects(limit)
  \/ GetDefiProtocols
  \/ GetTopNftCollections
  \/ DiscardSeries

SpecSeries == InitSeries /\ [][NextSeries]_vars

(***************************************************************************)
(* Claims about the series fetches (checked under SpecSeries).             *)
(***************************************************************************)
\* The day after a civil date, by the lengths of the months.
NextCivilDay(date) ==
  IF date.d < DaysInMonth(date.y, date.m)
  THEN [date EXCEPT !.d = date.d + 1]
  ELSE IF date.m < 12
       THEN [y |-> date.y, m |-> date.m + 1, d |-> 1]
       ELSE [y |-> date.y + 1, m |-> 1, d |-> 1]

\* The day the k-th point of the last fetch stands for: call.days - k days
\* before the day of the fetch.
PointDay(k) == SetDateBack(call.at, call.days - k)

\* C7: for every window N > 0 a time-series fetch (signal trend, project
\* activity, NFT trend, dashboard chart data) returns exactly N points, one
\* for each consecutive calendar day of the window that ends on the day of
\* the fetch, oldest first, no day omitted.
C7_SeriesCoversWindow ==
  (call.kind # "none" /\ call.days > 0) =>
    /\ Len(series) = call.days
    /\ PointDay(call.days) = call.at
    /\ \A k \in 1 .. (call.days - 1) : NextCivilDay(PointDay(k)) = PointDay(k + 1)
    /\ \A k \in 1 .. call.days : series[k].date = DateStr(PointDay(k))

\* A 7-day NFT trend fetched on March 1st: the window spans two months.
C7_Witness ==
  /\ call.kind = "nftTrend"
  /\ call.days = 7
  /\ Len(series) = 7
  /\ series[1].date = <<2, 23>>
  /\ series[7].date = <<3, 1>>

\* The fetch went through ApiService.get.
ViaApi == call.kind \in {"apiSignalTrend", "apiActivityTrend"}

\* The window the caller asked for is not a positive integer: NaN, zero or
\* negative.
WindowInvalid ==
  IF ViaApi THEN parseInt(call.query).nan \/ parseInt(call.query).value < 1
  ELSE call.days < 1

\* C14: when the window asked for is not a positive integer, a time-series
\* fetch either clamps it to a positive window and returns that many points
\* or rejects; it never succeeds with a series built from the invalid window.
\* (No fetch of the program rejects for its window, so a fetch that has
\* resolved must hold the points of a positive window.)
C14_InvalidWindowClampedOrRejected ==
  (call.kind \notin ListKinds \cup {"none"} /\ WindowInvalid) => Len(series) >= 1

\* C15: every entity-list fetch returns a bounded top-N list in descending
\* order of its ranking key: hot projects by score, at most limit of them;
\* top NFT collections by 24h volume; DeFi protocols by TVL.
C15_TopNDescending ==
  /\ call.kind = "hotProjects" =>
       /\ Len(series) <= call.limit
       /\ \A i, j \in DOMAIN series : i < j => series[i].score >= series[j].score
  /\ call.kind = "topNftCollections" =>
       /\ Len(series) <= Len(TopNftCollections)
       /\ \A i, j \in DOMAIN series : i < j => series[i].volume_24h >= series[j].volume_24h
  /\ call.kind = "defiProtocols" =>
       /\ Len(series) <= Len(DefiProtocols)
       /\ \A i, j \in DOMAIN series : i < j => series[i].tvl >= series[j].tvl

\* C8: for every window N > 0 the date labels of one returned series are
\* pairwise distinct and stand for days in ascending chronological order.
C8_LabelsDistinctAscending ==
  (call.kind # "none" /\ call.days > 0) =>
    \A i, j \in DOMAIN series :
      i < j =>
        /\ series[i].date # series[j].date
        /\ MakeDay(PointDay(i).y, PointDay(i).m, PointDay(i).d)
             < MakeDay(PointDay(j).y, PointDay(j).m, PointDay(j).d)

(***************************************************************************)
(* The list filters of the views.  A string is a tuple of characters, so   *)
(* that toLowerCase and includes are computed as the engine computes them. *)
(***************************************************************************)
Lower ==
  [c \in {"S", "O", "L", "R", "M", "U"} |->
     CASE c = "S" -> "s" [] c = "O" -> "o" [] c = "L" -> "l"
       [] c = "R" -> "r" [] c = "M" -> "m" [] c = "U" -> "u"]

\* String.prototype.toLowerCase
toLowerCase(str) ==
  [i \in 1 .. Len(str) |-> IF str[i] \in DOMAIN Lower THEN Lower[str[i]] ELSE str[i]]

\* String.prototype.includes
includes(str, search) ==
  \E i \in 0 .. (Len(str) - Len(search)) :
    SubSeq(str, i + 1, i + Len(search)) = search

\* Array.prototype.filter is SelectSeq: the elements that pass the test, in
\* the order of the array.

\* A comparator that would put earlier timestamps first.
CompareTimestampsAscending(a, b) == a.timestamp - b.timestamp

\* The comparator of the signal history's sort: later timestamps first.
CompareTimestamps(a, b) == b.timestamp - a.timestamp

\* Array.prototype.sort with that comparator (the sort is stable).
RECURSIVE InsertSorted(_, _)
InsertSorted(sorted, x) ==
  IF sorted = <<>> THEN <<x>>
  ELSE IF CompareTimestamps(Head(sorted), x) <= 0
       THEN <<Head(sorted)>> \o InsertSorted(Tail(sorted), x)
       ELSE <<x>> \o sorted

RECURSIVE ArraySort(_)
ArraySort(arr) ==
  IF arr = <<>> THEN <<>>
  ELSE InsertSorted(ArraySort(SubSeq(arr, 1, Len(arr) - 1)), arr[Len(arr)])

\* matchesSearch || matchesCategory, as the test would read with the wrong
\* connective.
MatchesEither(item, term, category) ==
  \/ includes(toLowerCase(item.name), toLowerCase(term))
  \/ (category = "" \/ item.category = category)

\* matchesSearch && matchesCategory of the DeFi, NFT and signal list views
MatchesBoth(item, term, category) ==
  /\ includes(toLowerCase(item.name), toLowerCase(term))
  /\ (category = "" \/ item.category = category)

filteredProtocols(protocols, term, category) ==
  LET Keep(protocol) == MatchesBoth(protocol, term, category)
  IN  SelectSeq(protocols, Keep)

filteredCollections(collections, term, category) ==
  LET Keep(collection) == MatchesBoth(collection, term, category)
  IN  SelectSeq(collections, Keep)

filteredSignals(signals, term, type) ==
  LET Keep(signal) == MatchesBoth(signal, term, type)
  IN  SelectSeq(signals, Keep)

\* The signal history: two optional filter passes, then the sort.
filteredHistory(signals, searchQuery, filterType) ==
  LET query == toLowerCase(searchQuery)
      BySearch(signal) == includes(toLowerCase(signal.name), query)
      ByType(signal) == signal.category = filterType
      afterSearch == IF searchQuery # <<>> THEN SelectSeq(signals, BySearch)
                     ELSE signals
      afterType == IF filterType # "all" THEN SelectSeq(afterSearch, ByType)
                   ELSE afterSearch
  IN  ArraySort(afterType)

\* The dashboard's hot projects: the category alone.
filteredHotProjects(hotProjects, category) ==
  LET Keep(project) == project.category = category
  IN  IF category = "" THEN hotProjects ELSE SelectSeq(hotProjects, Keep)

\* The list the mounted view shows.
filtered ==
  CASE filterView = "defi" -> filteredProtocols(items, searchTerm, selectedCategory)
    [] filterView = "nft" -> filteredCollections(items, searchTerm, selectedCategory)
    [] filterView = "signals" -> filteredSignals(items, searchTerm, selectedCategory)
    [] filterView = "history" -> filteredHistory(items, searchTerm, selectedCategory)
    [] filterView = "dashboard" -> filteredHotProjects(items, selectedCategory)
    [] OTHER -> <<>>

(***************************************************************************)
(* SpecFilter: a list view is mounted, the adapter delivers its list and   *)
(* the user edits the search box and the category select.  In an item,     *)
(* name stands for name / asset and category for category / type.          *)
(***************************************************************************)
Pool ==
  { [id |-> 1, name |-> <<"S", "o", "l", "a", "n", "a">>, category |-> "Staking", timestamp |-> 3],
    [id |-> 2, name |-> <<"S", "e", "r", "u", "m">>, category |-> "DEX", timestamp |-> 5],
    [id |-> 3, name |-> <<"R", "a", "y", "d", "i", "u", "m">>, category |-> "AMM", timestamp |-> 1],
    [id |-> 4, name |-> <<"O", "r", "c", "a">>, category |-> "AMM", timestamp |-> 5],
    [id |-> 5, name |-> <<"M", "a", "n", "g", "o">>, category |-> "DEX", timestamp |-> 2] }

\* The five-item list in the order of the ids.
RECURSIVE ById(_)
ById(n) ==
  IF n = 0 THEN <<>> ELSE Append(ById(n - 1), CHOOSE item \in Pool : item.id = n)

\* What the adapter may deliver: any list of up to MaxList distinct items in
\* any order, or the full list.
Sources ==
  UNION { { src \in [1 .. k -> Pool] : \A i, j \in 1 .. k : i # j => src[i] # src[j] }
          : k \in 0 .. MaxList }
    \cup {ById(Cardinality(Pool))}

\* What the user may type into the search box.
Terms ==
  { <<>>, <<"s", "o", "l">>, <<"S", "O", "L">>, <<"r">>, <<"U", "m">>, <<"z">> }

ListViews == {"defi", "nft", "signals", "history", "dashboard"}

\* The value of the select's first option: no category chosen.
Unset(view) == IF view = "history" THEN "all" ELSE ""

CategoryOptions(view) == {Unset(view), "DEX", "AMM", "Staking", "GameFi"}

SeriesIdle ==
  /\ today = [y |-> 2025, m |-> 2, d |-> 28]
  /\ midnights = 0
  /\ rngState = 0
  /\ call = [kind |-> "none", days |-> 0, at |-> today]
  /\ series = <<>>

(***************************************************************************)
(* PaymentHistoryView.vue: the payment history and its filter form.        *)
(* Instants are whole hours since the epoch and calendar days are day      *)
(* numbers since the epoch; every payment is created on the hour.          *)
(***************************************************************************)
\* for (let i = 1; i <= 15; i++)
PaymentCount == 15

\* const statuses = ['completed', 'pending', 'failed', 'refunded']
Statuses == <<"completed", "pending", "failed", "refunded">>

\* The local calendar day on which the instant t falls in time zone z
\* (getDate and its siblings; toLocaleDateString in formatDate).
LocalDay(t, z) == (t + z) \div 24

\* new Date('YYYY-MM-DD'): a date-only string is parsed as UTC midnight.
ParseDate(day) == 24 * day

\* setHours(23, 59, 59, 999): the last instant of the LOCAL day on which t
\* falls; on the hour scale, the last hour of that day.
SetHoursEndOfDay(t, z) == 24 * (LocalDay(t, z) + 1) - z - 1

\* One pass of the loop of generateTestPaymentData from payment i on, k
\* draws of Math.random made so far.  A payment makes the draws of its
\* status, its method, isSubscription, its transaction id and its amount,
\* and one more for its subscription id when isSubscription holds.  date is
\* today moved back 2 * i local days (no clock change in between), and
\* toISOString followed by new Date(created_at) gives that instant back.
RECURSIVE PaymentsFrom(_, _, _, _)
PaymentsFrom(now, s, i, k) ==
  IF i > PaymentCount THEN <<>>
  ELSE LET isSubscription == RandomAt(s, k + 3) > 300
       IN  << [ id |-> i,
                status |-> Statuses[FloorRandom(s, k + 1, Len(Statuses), 1)],
                created_at |-> now - 48 * i ] >>
           \o PaymentsFrom(now, s, i + 1, k + (IF isSubscription THEN 6 ELSE 5))

generateTestPaymentData(now, s) == PaymentsFrom(now, s, 1, 0)

\* The number of Math.random draws of one generateTestPaymentData.
RECURSIVE PaymentDraws(_, _, _)
PaymentDraws(s, i, k) ==
  IF i > PaymentCount THEN k
  ELSE PaymentDraws(s, i + 1, k + (IF RandomAt(s, k + 3) > 300 THEN 6 ELSE 5))

\* A status pass that would run whatever filters.status holds.
ByStatusAlways(payments, filters) ==
  SelectSeq(payments, LAMBDA payment : payment.status = filters.status)

\* if (filters.status) payments = payments.filter(p => p.status === filters.status)
ByStatus(payments, filters) ==
  IF filters.status # ""
  THEN SelectSeq(payments, LAMBDA payment : payment.status = filters.status)
  ELSE payments

\* if (filters.start_date) { startDate = new Date(filters.start_date); ... >= startDate }
ByStartDate(payments, filters) ==
  IF filters.start_date # NoDay
  THEN SelectSeq(payments,
         LAMBDA payment : payment.created_at >= ParseDate(filters.start_date))
  ELSE payments

\* if (filters.end_date) { endDate = new Date(filters.end_date);
\*   endDate.setHours(23, 59, 59, 999); ... <= endDate }
ByEndDate(payments, filters, z) ==
  IF filters.end_date # NoDay
  THEN SelectSeq(payments,
         LAMBDA payment :
           payment.created_at <= SetHoursEndOfDay(ParseDate(filters.end_date), z))
  ELSE payments

\* if (filters.limit) payments = payments.slice(offset, offset + limit)
Sliced(payments, filters) ==
  IF filters.limit # 0
  THEN SubSeq(payments, filters.offset + 1,
              IF filters.offset + filters.limit < Len(payments)
              THEN filters.offset + filters.limit ELSE Len(payments))
  ELSE payments

\* The body of if (filters) { ... } in loadPaymentHistory; filters is <<>>
\* when the function is called without an argument.
FilteredPayments(filters, payments, z) ==
  IF filters = <<>> THEN payments
  ELSE Sliced(ByEndDate(ByStartDate(ByStatus(payments, filters), filters), filters, z),
              filters)

\* loadPaymentHistory(filters): the test data is generated anew and
\* paymentHistory is assigned what the filters leave of it.
PaymentHistoryLoaded(filters, now, s, z) ==
  [ filters |-> filters,
    payments |-> generateTestPaymentData(now, s),
    paymentHistory |-> FilteredPayments(filters, generateTestPaymentData(now, s), z) ]

\* The time zones of the browser: west of UTC, UTC, east of UTC.
TimeZones == {-5, 0, 8}

\* The newest payment is created on day NewestDay (UTC).
NewestDay == 38

\* The instants at which the view is mounted: early, at noon and late on
\* the UTC day two days after NewestDay.
Clocks == {24 * (NewestDay + 2) + h : h \in {2, 12, 21}}

\* The values of a date input: unset, or a day with payments around it.
DateInputs == {NoDay, NewestDay - 2, NewestDay - 1}

\* The options of the status select that the model offers.
StatusOptions == {"", "completed", "failed"}

\* onMounted: loadPaymentHistory() with no filters.
MountPayments(z, now) ==
  /\ filterView = "none"
  /\ filterView' = "payments"
  /\ zone' = z
  /\ clock' = now
  /\ payFilter' = FilterSetup
  /\ paymentLoad' = PaymentHistoryLoaded(<<>>, now, rngState, z)
  /\ rngState' = RngAfter(rngState, PaymentDraws(rngState, 1, 0))
  /\ UNCHANGED <<items, searchTerm, selectedCategory>>
  /\ UNCHANGED <<today, midnights, call, series>>
  /\ UNCHANGED viewVars

\* v-model="filter.start_date"
SetStartDate(day) ==
  /\ filterView = "payments"
  /\ payFilter' = [payFilter EXCEPT !.start_date = day]
  /\ UNCHANGED <<filterView, items, searchTerm, selectedCategory, zone, clock, paymentLoad>>
  /\ UNCHANGED <<seriesVars, viewVars>>

\* v-model="filter.end_date"
SetEndDate(day) ==
  /\ filterView = "payments"
  /\ payFilter' = [payFilter EXCEPT !.end_date = day]
  /\ UNCHANGED <<filterView, items, searchTerm, selectedCategory, zone, clock, paymentLoad>>
  /\ UNCHANGED <<seriesVars, viewVars>>

\* v-model="filter.status"
SetStatus(status) ==
  /\ filterView = "payments"
  /\ payFilter' = [payFilter EXCEPT !.status = status]
  /\ UNCHANGED <<filterView, items, searchTerm, selectedCategory, zone, clock, paymentLoad>>
  /\ UNCHANGED <<seriesVars, viewVars>>

\* applyFilter: loadPaymentHistory(filter.value)
applyFilter ==
  /\ filterView = "payments"
  /\ paymentLoad' = PaymentHistoryLoaded(payFilter, clock, rngState, zone)
  /\ rngState' = RngAfter(rngState, PaymentDraws(rngState, 1, 0))
  /\ UNCHANGED <<filterView, items, searchTerm, selectedCategory, zone, clock, payFilter>>
  /\ UNCHANGED <<today, midnights, call, series>>
  /\ UNCHANGED viewVars

\* resetFilter: the filter gets its initial values, then loadPaymentHistory()
resetFilter ==
  /\ filterView = "payments"
  /\ payFilter' = FilterSetup
  /\ paymentLoad' = PaymentHistoryLoaded(<<>>, clock, rngState, zone)
  /\ rngState' = RngAfter(rngState, PaymentDraws(rngState, 1, 0))
  /\ UNCHANGED <<filterView, items, searchTerm, selectedCategory, zone, clock>>
  /\ UNCHANGED <<today, midnights, call, series>>
  /\ UNCHANGED viewVars

InitFilter ==
  /\ SeriesIdle
  /\ FilterIdle
  /\ ViewsIdle

\* setup() of a list view: the refs get their initial values.
MountListView(view) ==
  /\ filterView = "none"
  /\ filterView' = view
  /\ items' = <<>>
  /\ searchTerm' = <<>>
  /\ selectedCategory' = Unset(view)
  /\ UNCHANGED payVars
  /\ UNCHANGED <<seriesVars, viewVars>>

\* The view's fetch fulfils: protocols / top_collections / signals /
\* hotProjects is assigned the list.
ItemsLoaded(src) ==
  /\ filterView \in ListViews
  /\ items' = src
  /\ UNCHANGED <<filterView, searchTerm, selectedCategory>>
  /\ UNCHANGED payVars
  /\ UNCHANGED <<seriesVars, viewVars>>

\* v-model of the search box (the dashboard has none).
SetSearchTerm(term) ==
  /\ filterView \in ListViews \ {"dashboard"}
  /\ searchTerm' = term
  /\ UNCHANGED <<filterView, items, selectedCategory>>
  /\ UNCHANGED payVars
  /\ UNCHANGED <<seriesVars, viewVars>>

\* v-model of the category / type select.
SetCategory(category) ==
  /\ filterView \in ListViews
  /\ category \in CategoryOptions(filterView)
  /\ selectedCategory' = category
  /\ UNCHANGED <<filterView, items, searchTerm>>
  /\ UNCHANGED payVars
  /\ UNCHANGED <<seriesVars, viewVars>>

UnmountListView ==
  /\ filterView # "none"
  /\ filterView' = "none"
  /\ items' = <<>>
  /\ searchTerm' = <<>>
  /\ selectedCategory' = ""
  /\ zone' = 0
  /\ clock' = 0
  /\ payFilter' = FilterSetup
  /\ paymentLoad' = NoLoad
  /\ UNCHANGED <<seriesVars, viewVars>>

NextFilter ==
  \/ \E view \in ListViews : MountListView(view)
  \/ \E src \in Sources : ItemsLoaded(src)
  \/ \E term \in Terms : SetSearchTerm(term)
  \/ \E category \in CategoryOptions("history") \cup CategoryOptions("defi") : SetCategory(category)
  \/ UnmountListView
  \/ \E z \in TimeZones, now \in Clocks : MountPayments(z, now)
  \/ \E day \in DateInputs : SetStartDate(day)
  \/ \E day \in DateInputs : SetEndDate(day)
  \/ \E status \in StatusOptions : SetStatus(status)
  \/ applyFilter
  \/ resetFilter

SpecFilter == InitFilter /\ [][NextFilter]_vars

(***************************************************************************)
(* Claims about the list filters (checked under SpecFilter).               *)
(***************************************************************************)
\* The elements of seq at the positions of the set I, in order.
RECURSIVE Pick(_, _)
Pick(seq, I) ==
  IF seq = <<>> THEN <<>>
  ELSE LET rest == Pick(SubSeq(seq, 1, Len(seq) - 1), I)
       IN  IF Len(seq) \in I THEN Append(rest, seq[Len(seq)]) ELSE rest

IsSubsequence(result, source) ==
  \E I \in SUBSET (1 .. Len(source)) : Pick(source, I) = result

\* C9: the list a view shows is a subsequence of its source list: only
\* source items, in their original relative order.
C9_FilterIsSubsequence ==
  filterView # "none" => IsSubsequence(filtered, items)

\* C9 as amended: every view shows only source items, each at most once;
\* the DeFi, NFT, signal list and dashboard filters keep the source order;
\* the signal history shows its matches latest timestamp first, signals of
\* equal timestamp in source order.
C9_SubsequenceOrSortedHistory ==
  filterView # "none" =>
    /\ \E I \in SUBSET (1 .. Len(items)) :
         /\ Len(filtered) = Cardinality(I)
         /\ {filtered[k] : k \in 1 .. Len(filtered)} = {items[i] : i \in I}
    /\ filterView # "history" => IsSubsequence(filtered, items)
    /\ filterView = "history" =>
         \A i, j \in 1 .. Len(filtered) : i < j =>
           \/ filtered[i].timestamp > filtered[j].timestamp
           \/ /\ filtered[i].timestamp = filtered[j].timestamp
              /\ \E a, b \in 1 .. Len(items) :
                   a < b /\ items[a] = filtered[i] /\ items[b] = filtered[j]

\* The history view shows two or more matches in another order than the source's.
C9_Witness ==
  /\ filterView = "history"
  /\ searchTerm = <<"r">>
  /\ Len(filtered) = 3
  /\ ~IsSubsequence(filtered, items)

\* The two cases of a letter.
CasePairs ==
  { <<"S", "s">>, <<"O", "o">>, <<"L", "l">>, <<"R", "r">>, <<"M", "m">>, <<"U", "u">> }

SameLetter(a, b) == a = b \/ <<a, b>> \in CasePairs \/ <<b, a>> \in CasePairs

\* query occurs in name as a substring, the case of the letters ignored.
ContainsIgnoringCase(name, query) ==
  \E i \in 0 .. (Len(name) - Len(query)) :
    \A j \in 1 .. Len(query) : SameLetter(name[i + j], query[j])

\* The predicates the user has set in the mounted view.
TextQuerySet == filterView # "dashboard" /\ searchTerm # <<>>

CategorySet == selectedCategory # Unset(filterView)

SatisfiesSetPredicates(item) ==
  /\ TextQuerySet => ContainsIgnoringCase(item.name, searchTerm)
  /\ CategorySet => item.category = selectedCategory

Shown == {filtered[k] : k \in 1 .. Len(filtered)}

\* C10: an item of the source list is shown if and only if it satisfies
\* every predicate that is set (the text query as a case-insensitive
\* substring of its name AND its category equal to the selected one); the
\* query "sol" with no category over a five-item list holding one name with
\* "sol" shows exactly one item.
C10_ShownIffAllPredicates ==
  filterView # "none" =>
    /\ \A item \in Pool :
         item \in Shown <=>
           /\ \E i \in 1 .. Len(items) : items[i] = item
           /\ SatisfiesSetPredicates(item)
    /\ ( /\ Len(items) = 5
         /\ filterView # "dashboard"
         /\ searchTerm = <<"s", "o", "l">>
         /\ ~CategorySet
         /\ Cardinality({i \in 1 .. 5 : ContainsIgnoringCase(items[i].name, <<"s", "o", "l">>)}) = 1 )
       => Len(filtered) = 1

\* The NFT view shows the one collection that matches "sol" out of five.
C10_Witness ==
  /\ filterView = "nft"
  /\ Len(items) = 5
  /\ searchTerm = <<"s", "o", "l">>
  /\ selectedCategory = ""
  /\ Len(filtered) = 1
  /\ filtered[1].id = 1


\* The last load of the payment history ran with a filter argument.
FilterApplied == filterView = "payments" /\ paymentLoad.filters # <<>>

\* The number of source items that pass test.
CountOf(test) == Cardinality({i \in 1 .. Len(items) : test[i]})

\* C11: an unset predicate field is a no-op on its axis: with an empty text
\* query, an empty category or type (or the type 'all' of the signal
\* history), an empty status, an empty start date or an empty end date, the
\* view shows as many items as the same filter without that field does.
C11_UnsetFieldIsNoOp ==
  /\ (filterView \in ListViews /\ ~TextQuerySet) =>
       Len(filtered) =
         CountOf([i \in 1 .. Len(items) |->
                    CategorySet => items[i].category = selectedCategory])
  /\ (filterView \in ListViews /\ ~CategorySet) =>
       Len(filtered) =
         CountOf([i \in 1 .. Len(items) |->
                    TextQuerySet => ContainsIgnoringCase(items[i].name, searchTerm)])
  /\ FilterApplied =>
       LET F == paymentLoad.filters
           P == paymentLoad.payments
           H == paymentLoad.paymentHistory
       IN  /\ F.status = "" =>
                Len(H) = Len(Sliced(ByEndDate(ByStartDate(P, F), F, zone), F))
           /\ F.start_date = NoDay =>
                Len(H) = Len(Sliced(ByEndDate(ByStatus(P, F), F, zone), F))
           /\ F.end_date = NoDay =>
                Len(H) = Len(Sliced(ByStartDate(ByStatus(P, F), F), F))

\* A filter with an end date and no status has been applied and shows some
\* of the payments, not all.
C11_Witness ==
  /\ FilterApplied
  /\ paymentLoad.filters.status = ""
  /\ paymentLoad.filters.end_date # NoDay
  /\ Len(paymentLoad.paymentHistory) > 0
  /\ Len(paymentLoad.paymentHistory) < Len(paymentLoad.payments)

\* C12: filtering is pure: a filter applied twice with identical arguments
\* gives identical output by value (here: the payment history loaded again
\* with the filter of the previous load shows the list it showed), and the
\* input collection is never mutated.
C12_SameArgumentsSameOutput ==
  [][ ( \/ applyFilter /\ paymentLoad.filters = payFilter
        \/ resetFilter /\ paymentLoad.filters = <<>> )
      => /\ paymentLoad'.paymentHistory = paymentLoad.paymentHistory
         /\ items' = items ]_vars

\* day lies in the range of the filter F, both ends included; an unset end
\* does not bound the range.
InRange(day, F) ==
  /\ F.start_date # NoDay => day >= F.start_date
  /\ F.end_date # NoDay => day <= F.end_date

\* The payments of the last load that the history shows.
Kept == {paymentLoad.paymentHistory[k] : k \in 1 .. Len(paymentLoad.paymentHistory)}

\* C13: the date range of the payment history is inclusive at both ends: a
\* payment created on the start day or on the end day is kept, one created
\* on a day before the start day or after the end day is dropped.  The day
\* of a payment is read either as its local calendar day (the day the view
\* prints) or as its UTC day (the day of created_at); the claim holds if
\* the history agrees with one of the two readings.
C13_DateRangeInclusive ==
  (FilterApplied /\ paymentLoad.filters.status = "") =>
    LET F == paymentLoad.filters
        P == paymentLoad.payments
    IN  \/ \A i \in 1 .. Len(P) :
             P[i] \in Kept <=> InRange(LocalDay(P[i].created_at, zone), F)
        \/ \A i \in 1 .. Len(P) :
             P[i] \in Kept <=> InRange(LocalDay(P[i].created_at, 0), F)

(***************************************************************************)
(* Spec: the views.  One view is mounted at a time.  The adapter is the    *)
(* boundary of the program: a call in flight fulfils with any payload of   *)
(* its type or rejects with any reason.  A settle step runs the whole      *)
(* continuation of the awaiting load function (its try, catch and finally  *)
(* parts are microtasks of that one task).                                 *)
(***************************************************************************)
Ids == 1 .. MaxId

\* Lists of records (by id) the adapter may deliver.
Lists ==
  UNION { { l \in [1 .. k -> Ids] : \A i, j \in 1 .. k : i # j => l[i] # l[j] }
          : k \in 0 .. MaxId }

\* Reasons a fetch rejects with.
Reasons == {"timeout", "network"}

\* The user-visible messages of the catch blocks (the sources have them in
\* Chinese).
MsgSignals == "load signals failed"
MsgSignalDetail == "load signal detail failed"
MsgProjectDetail == "load project detail failed"
MsgSubscription == "load subscription data failed"
MsgDashboard == "load data failed"

Issued(method) == [pending EXCEPT ![method] = @ + 1]
Settled(method) == [pending EXCEPT ![method] = @ - 1]
Logged(msg, reason) == [msg |-> msg, reason |-> reason]

\* ---- signal history -----------------------------------------------------
HistorySetup ==
  [isLoading |-> FALSE, error |-> "", signals |-> <<>>, currentPage |-> 1]

\* loadSignals up to its await
loadSignalsBegin(r) == [r EXCEPT !.isLoading = TRUE, !.error = ""]

\* A catch block that would also blank the list.
loadSignalsCatchBlank(r) ==
  [r EXCEPT !.error = MsgSignals, !.signals = <<>>, !.isLoading = FALSE]

\* loadSignals after the await has thrown: catch, then finally.
loadSignalsCatch(r) == [r EXCEPT !.error = MsgSignals, !.isLoading = FALSE]

MountSignalHistory ==
  /\ mounted = "none"
  /\ mounted' = "history"
  /\ refs' = loadSignalsBegin(HistorySetup)
  /\ pending' = Issued("getRecentSignals")
  /\ UNCHANGED <<route, join, charts, drawCount, timers, console>>
  /\ UNCHANGED <<seriesVars, filterVars, torn, storeVars, sideVars>>

\* The refresh button.
RefreshSignals ==
  /\ mounted = "history"
  /\ ~torn
  /\ pending["getRecentSignals"] < MaxInFlight
  /\ refs' = loadSignalsBegin(refs)
  /\ pending' = Issued("getRecentSignals")
  /\ UNCHANGED <<mounted, route, join, charts, drawCount, timers, console>>
  /\ UNCHANGED <<seriesVars, filterVars, torn, storeVars, sideVars>>

loadSignalsFulfilled(list) ==
  /\ mounted = "history"
  /\ pending["getRecentSignals"] > 0
  /\ pending' = Settled("getRecentSignals")
  /\ refs' = [refs EXCEPT !.signals = list, !.currentPage = 1, !.isLoading = FALSE]
  /\ UNCHANGED <<mounted, route, join, charts, drawCount, timers, console>>
  /\ UNCHANGED <<seriesVars, filterVars, torn, storeVars, sideVars>>


\* A catch block that would call loadSignals again after a failure.
loadSignalsRejectedRetrying(reason) ==
  /\ mounted = "history"
  /\ pending["getRecentSignals"] > 0
  /\ pending' = pending
  /\ refs' = loadSignalsBegin(loadSignalsCatch(refs))
  /\ console' = Logged("Error loading signals:", reason)
  /\ UNCHANGED <<mounted, route, join, charts, drawCount, timers>>
  /\ UNCHANGED <<seriesVars, filterVars, torn, storeVars, sideVars>>

loadSignalsRejected(reason) ==
  /\ mounted = "history"
  /\ pending["getRecentSignals"] > 0
  /\ pending' = Settled("getRecentSignals")
  /\ refs' = loadSignalsCatch(refs)
  /\ console' = Logged("Error loading signals:", reason)
  /\ UNCHANGED <<mounted, route, join, charts, drawCount, timers>>
  /\ UNCHANGED <<seriesVars, filterVars, torn, storeVars, sideVars>>

\* ---- signal list ----------------------------------------------------------
SignalsSetup == [isLoading |-> FALSE, signals |-> <<>>]

MountSignals ==
  /\ mounted = "none"
  /\ mounted' = "signals"
  /\ refs' = [SignalsSetup EXCEPT !.isLoading = TRUE]
  /\ pending' = Issued("getRecentSignals")
  /\ UNCHANGED <<route, join, charts, drawCount, timers, console>>
  /\ UNCHANGED <<seriesVars, filterVars, torn, storeVars, sideVars>>

SignalsLoadFulfilled(list) ==
  /\ mounted = "signals"
  /\ pending["getRecentSignals"] > 0
  /\ pending' = Settled("getRecentSignals")
  /\ refs' = [refs EXCEPT !.signals = list, !.isLoading = FALSE]
  /\ UNCHANGED <<mounted, route, join, charts, drawCount, timers, console>>
  /\ UNCHANGED <<seriesVars, filterVars, torn, storeVars, sideVars>>

\* The catch block only logs.
SignalsLoadRejected(reason) ==
  /\ mounted = "signals"
  /\ pending["getRecentSignals"] > 0
  /\ pending' = Settled("getRecentSignals")
  /\ refs' = [refs EXCEPT !.isLoading = FALSE]
  /\ console' = Logged("Error loading signals:", reason)
  /\ UNCHANGED <<mounted, route, join, charts, drawCount, timers>>
  /\ UNCHANGED <<seriesVars, filterVars, torn, storeVars, sideVars>>

\* ---- DeFi protocols -------------------------------------------------------
DefiSetup == [protocols |-> <<>>]

MountDefi ==
  /\ mounted = "none"
  /\ mounted' = "defi"
  /\ refs' = DefiSetup
  /\ pending' = Issued("getDefiProtocols")
  /\ UNCHANGED <<route, join, charts, drawCount, timers, console>>
  /\ UNCHANGED <<seriesVars, filterVars, torn, storeVars, sideVars>>

DefiFulfilled(list) ==
  /\ mounted = "defi"
  /\ pending["getDefiProtocols"] > 0
  /\ pending' = Settled("getDefiProtocols")
  /\ refs' = [refs EXCEPT !.protocols = list]
  /\ UNCHANGED <<mounted, route, join, charts, drawCount, timers, console>>
  /\ UNCHANGED <<seriesVars, filterVars, torn, storeVars, sideVars>>

\* The catch block only logs.
DefiRejected(reason) ==
  /\ mounted = "defi"
  /\ pending["getDefiProtocols"] > 0
  /\ pending' = Settled("getDefiProtocols")
  /\ console' = Logged("Error fetching DeFi protocols:", reason)
  /\ UNCHANGED <<mounted, route, refs, join, charts, drawCount, timers>>
  /\ UNCHANGED <<seriesVars, filterVars, torn, storeVars, sideVars>>

\* ---- signal detail ---------------------------------------------------------
\* signal is the id of the signal shown (0 for null); relatedFor is the
\* signal the related assets, indicators and history were generated for.
SignalDetailSetup ==
  [isLoading |-> FALSE, error |-> "", signal |-> 0, relatedFor |-> 0]

\* What the detail view picks: the record asked for, else the first one.
Picked(list, id) ==
  IF \E i \in 1 .. Len(list) : list[i] = id THEN id
  ELSE IF Len(list) > 0 THEN list[1] ELSE 0

MountSignalDetail(id) ==
  /\ mounted = "none"
  /\ mounted' = "signalDetail"
  /\ route' = id
  /\ refs' = [SignalDetailSetup EXCEPT !.isLoading = TRUE, !.error = ""]
  /\ pending' = Issued("getRecentSignals")
  /\ UNCHANGED <<join, charts, drawCount, timers, console>>
  /\ UNCHANGED <<seriesVars, filterVars, torn, storeVars, sideVars>>

loadSignalDetailFulfilled(list) ==
  /\ mounted = "signalDetail"
  /\ pending["getRecentSignals"] > 0
  /\ pending' = Settled("getRecentSignals")
  /\ refs' = IF Picked(list, route) # 0
             THEN [refs EXCEPT !.signal = Picked(list, route),
                               !.relatedFor = Picked(list, route),
                               !.isLoading = FALSE]
             ELSE [refs EXCEPT !.isLoading = FALSE]
  /\ UNCHANGED <<mounted, route, join, charts, drawCount, timers, console>>
  /\ UNCHANGED <<seriesVars, filterVars, torn, storeVars, sideVars>>

loadSignalDetailRejected(reason) ==
  /\ mounted = "signalDetail"
  /\ pending["getRecentSignals"] > 0
  /\ pending' = Settled("getRecentSignals")
  /\ refs' = [refs EXCEPT !.error = MsgSignalDetail, !.isLoading = FALSE]
  /\ console' = Logged("Error loading signal detail:", reason)
  /\ UNCHANGED <<mounted, route, join, charts, drawCount, timers>>
  /\ UNCHANGED <<seriesVars, filterVars, torn, storeVars, sideVars>>

\* ---- my subscription ------------------------------------------------------
\* activeSubscription is the id of the subscription (0 for null);
\* currentUsage is the subscription the usage figures belong to.
SubscriptionSetup ==
  [isLoading |-> FALSE, error |-> "", activeSubscription |-> 0, currentUsage |-> 0]

MountMySubscription ==
  /\ mounted = "none"
  /\ mounted' = "mySubscription"
  /\ refs' = [SubscriptionSetup EXCEPT !.isLoading = TRUE, !.error = ""]
  /\ pending' = Issued("getUserSubscriptions")
  /\ UNCHANGED <<route, join, charts, drawCount, timers, console>>
  /\ UNCHANGED <<seriesVars, filterVars, torn, storeVars, sideVars>>

loadSubscriptionDataFulfilled(subscriptions) ==
  /\ mounted = "mySubscription"
  /\ pending["getUserSubscriptions"] > 0
  /\ pending' = Settled("getUserSubscriptions")
  /\ refs' = IF Len(subscriptions) > 0
             THEN [refs EXCEPT !.activeSubscription = subscriptions[1],
                               !.currentUsage = subscriptions[1],
                               !.isLoading = FALSE]
             ELSE [refs EXCEPT !.isLoading = FALSE]
  /\ UNCHANGED <<mounted, route, join, charts, drawCount, timers, console>>
  /\ UNCHANGED <<seriesVars, filterVars, torn, storeVars, sideVars>>

loadSubscriptionDataRejected(reason) ==
  /\ mounted = "mySubscription"
  /\ pending["getUserSubscriptions"] > 0
  /\ pending' = Settled("getUserSubscriptions")
  /\ refs' = [refs EXCEPT !.error = MsgSubscription, !.isLoading = FALSE]
  /\ console' = Logged("Error loading subscription data:", reason)
  /\ UNCHANGED <<mounted, route, join, charts, drawCount, timers>>
  /\ UNCHANGED <<seriesVars, filterVars, torn, storeVars, sideVars>>

\* ---- payment history ------------------------------------------------------
\* loadPaymentHistory awaits nothing: it builds its test payments and
\* filters them in one synchronous run, so the flags are back before any
\* other task runs.  payments is what the run ends with.
PaymentsSetup == [isLoading |-> FALSE, error |-> "", paymentHistory |-> <<>>]

loadPaymentHistory(r, payments) ==
  [r EXCEPT !.isLoading = FALSE, !.error = "", !.paymentHistory = payments]

MountPaymentHistory(payments) ==
  /\ mounted = "none"
  /\ mounted' = "payments"
  /\ refs' = loadPaymentHistory(PaymentsSetup, payments)
  /\ UNCHANGED <<route, pending, join, charts, drawCount, timers, console>>
  /\ UNCHANGED <<seriesVars, filterVars, torn, storeVars, sideVars>>

\* applyFilter / resetFilter
ApplyFilter(payments) ==
  /\ mounted = "payments"
  /\ ~torn
  /\ refs' = loadPaymentHistory(refs, payments)
  /\ UNCHANGED <<mounted, route, pending, join, charts, drawCount, timers, console>>
  /\ UNCHANGED <<seriesVars, filterVars, torn, storeVars, sideVars>>

\* ---- chart rendering -------------------------------------------------------
\* A container holds a sequence of svg elements; an svg is known by the
\* number of data primitives (bars / dots) drawn into it.

\* A clear that would remove nothing.
RemoveNone(elements) == elements

\* d3.select(container).selectAll('*').remove()
RemoveAll(elements) == <<>>

\* The body of a chart function after its guard: clear, then append the svg.
Redrawn(elements, points) == Append(RemoveAll(elements), [points |-> points])

\* The draws counted; a chart function returns at once (if (!chart.value)
\* return) when the template ref is null, as it is after the unmount.
Counted == IF drawCount < MaxDraws /\ ~torn THEN drawCount + 1 ELSE drawCount

\* ---- dashboard ------------------------------------------------------------
ChartDays == 7

DashboardSetup ==
  [isLoading |-> FALSE, error |-> "", isDataLoaded |-> FALSE, metrics |-> 0,
   recentSignals |-> <<>>, hotProjects |-> <<>>, chartPoints |-> 0]

DashboardFetches == {"getDashboardMetrics", "getRecentSignals", "getHotProjects"}

DashboardCharts ==
  {"signalTrendChart", "projectActivityChart", "priceTrendChart", "volumeTrendChart"}

\* join lists the fetches that have settled, in the order they settled.
Rejections(settles) == {i \in 1 .. Len(settles) : ~settles[i].ok}

FirstRejection(settles) ==
  CHOOSE i \in Rejections(settles) : \A j \in Rejections(settles) : i <= j

LastRejection(settles) ==
  CHOOSE i \in Rejections(settles) : \A j \in Rejections(settles) : j <= i

\* A join that would fulfil as soon as one fetch has (Promise.any).
PromiseAny(settles) ==
  IF \E i \in 1 .. Len(settles) : settles[i].ok THEN [state |-> "fulfilled", reason |-> ""]
  ELSE IF Len(settles) = 3
       THEN [state |-> "rejected", reason |-> settles[FirstRejection(settles)].reason]
       ELSE [state |-> "pending", reason |-> ""]

\* A join that would wait for all three, then reject with the last failure.
PromiseAllSettled(settles) ==
  IF Len(settles) < 3 THEN [state |-> "pending", reason |-> ""]
  ELSE IF Rejections(settles) # {}
       THEN [state |-> "rejected", reason |-> settles[LastRejection(settles)].reason]
       ELSE [state |-> "fulfilled", reason |-> ""]

\* Promise.all: rejected with the first rejection, fulfilled once all have.
PromiseAll(settles) ==
  IF Rejections(settles) # {}
  THEN [state |-> "rejected", reason |-> settles[FirstRejection(settles)].reason]
  ELSE IF Len(settles) = 3 THEN [state |-> "fulfilled", reason |-> ""]
       ELSE [state |-> "pending", reason |-> ""]

\* What a fetch fulfilled with (undefined, here the initial value, if it has not).
Fulfilment(settles, method, undefined) ==
  IF \E i \in 1 .. Len(settles) : settles[i].fetch = method /\ settles[i].ok
  THEN settles[CHOOSE i \in 1 .. Len(settles) : settles[i].fetch = method /\ settles[i].ok].value
  ELSE undefined

\* loadData after its await: the try part, or the catch part, then finally.
loadDataResume(r, settles) ==
  IF PromiseAll(settles).state = "fulfilled"
  THEN [r EXCEPT !.metrics = Fulfilment(settles, "getDashboardMetrics", <<0>>)[1],
                 !.recentSignals = Fulfilment(settles, "getRecentSignals", <<>>),
                 !.hotProjects = Fulfilment(settles, "getHotProjects", <<>>),
                 !.chartPoints = ChartDays,
                 !.isDataLoaded = TRUE,
                 !.isLoading = FALSE]
  ELSE [r EXCEPT !.error = MsgDashboard, !.isLoading = FALSE]

MountDashboard ==
  /\ mounted = "none"
  /\ mounted' = "dashboard"
  /\ refs' = [DashboardSetup EXCEPT !.isLoading = TRUE, !.error = ""]
  /\ pending' = [m \in AdapterCalls |-> IF m \in DashboardFetches THEN 1 ELSE 0]
  /\ join' = <<>>
  /\ UNCHANGED <<route, charts, drawCount, timers, console>>
  /\ UNCHANGED <<seriesVars, filterVars, torn, storeVars, sideVars>>

\* One of the three fetches settles.  loadData resumes when this settles
\* the join; a later settlement of the join's other fetches resumes nothing.
DashboardSettle(entry) ==
  /\ mounted = "dashboard"
  /\ pending[entry.fetch] > 0
  /\ pending' = Settled(entry.fetch)
  /\ join' = Append(join, entry)
  /\ IF PromiseAll(join).state = "pending" /\ PromiseAll(join').state # "pending"
     THEN /\ refs' = loadDataResume(refs, join')
          /\ timers' = IF PromiseAll(join').state = "fulfilled"
                       THEN timers \cup {"initCharts"} ELSE timers
          /\ console' = IF PromiseAll(join').state = "rejected"
                        THEN Logged("Error loading data:", PromiseAll(join').reason)
                        ELSE console
     ELSE UNCHANGED <<refs, timers, console>>
  /\ UNCHANGED <<mounted, route, charts, drawCount>>
  /\ UNCHANGED <<seriesVars, filterVars, torn, storeVars, sideVars>>

DashboardFetchFulfilled(method, value) ==
  /\ method \in DashboardFetches
  /\ DashboardSettle([fetch |-> method, ok |-> TRUE, value |-> value, reason |-> ""])

DashboardFetchRejected(method, reason) ==
  /\ method \in DashboardFetches
  /\ DashboardSettle([fetch |-> method, ok |-> FALSE, value |-> <<>>, reason |-> reason])

\* The four init...Chart functions: each returns if its container is not
\* rendered, else clears it and draws its series.
initDashboardCharts ==
  [c \in ChartNames |->
     IF c \in DashboardCharts /\ refs.isDataLoaded /\ ~torn
     THEN Redrawn(charts[c], refs.chartPoints) ELSE charts[c]]

\* The setTimeout callback of loadData.
DashboardTimer ==
  /\ mounted = "dashboard"
  /\ "initCharts" \in timers
  /\ timers' = timers \ {"initCharts"}
  /\ charts' = initDashboardCharts
  /\ drawCount' = Counted
  /\ UNCHANGED <<mounted, route, refs, pending, join, console>>
  /\ UNCHANGED <<seriesVars, filterVars, torn, storeVars, sideVars>>

\* The resize listener: redraws, and fetches nothing.
DashboardResize ==
  /\ mounted = "dashboard"
  /\ refs.isDataLoaded
  /\ charts' = initDashboardCharts
  /\ drawCount' = Counted
  /\ UNCHANGED <<mounted, route, refs, pending, join, timers, console>>
  /\ UNCHANGED <<seriesVars, filterVars, torn, storeVars, sideVars>>

\* ---- NFT market ------------------------------------------------------------
TrendDays == 7

\* trendData is known by its length.
NftSetup == [isLoading |-> FALSE, marketMetrics |-> 0, trendData |-> 0]

NftCharts == {"volumeChartRef", "floorPriceChartRef"}

\* Lengths of the series getNftTrendData(7) resolves with.
TrendLengths == {0, TrendDays}

MountNft ==
  /\ mounted = "none"
  /\ mounted' = "nft"
  /\ refs' = [NftSetup EXCEPT !.isLoading = TRUE]
  /\ pending' = Issued("getNftMarketMetrics")
  /\ UNCHANGED <<route, join, charts, drawCount, timers, console>>
  /\ UNCHANGED <<seriesVars, filterVars, torn, storeVars, sideVars>>

\* loadData goes on to loadTrendData, which issues the second fetch.
NftMetricsFulfilled(metrics) ==
  /\ mounted = "nft"
  /\ pending["getNftMarketMetrics"] > 0
  /\ refs' = [refs EXCEPT !.marketMetrics = metrics]
  /\ pending' = [pending EXCEPT !["getNftMarketMetrics"] = @ - 1,
                                !["getNftTrendData"] = @ + 1]
  /\ UNCHANGED <<mounted, route, join, charts, drawCount, timers, console>>
  /\ UNCHANGED <<seriesVars, filterVars, torn, storeVars, sideVars>>

\* The catch block of loadData only logs; there is no error ref.
NftMetricsRejected(reason) ==
  /\ mounted = "nft"
  /\ pending["getNftMarketMetrics"] > 0
  /\ pending' = Settled("getNftMarketMetrics")
  /\ refs' = [refs EXCEPT !.isLoading = FALSE]
  /\ console' = Logged("Error loading NFT data:", reason)
  /\ UNCHANGED <<mounted, route, join, charts, drawCount, timers>>
  /\ UNCHANGED <<seriesVars, filterVars, torn, storeVars, sideVars>>

\* The assignment triggers the watcher, which sets the 100 ms timer.
NftTrendFulfilled(length) ==
  /\ mounted = "nft"
  /\ pending["getNftTrendData"] > 0
  /\ pending' = Settled("getNftTrendData")
  /\ refs' = [refs EXCEPT !.trendData = length, !.isLoading = FALSE]
  /\ timers' = timers \cup {"nftCharts"}
  /\ UNCHANGED <<mounted, route, join, charts, drawCount, console>>
  /\ UNCHANGED <<seriesVars, filterVars, torn, storeVars, sideVars>>

\* loadTrendData catches and logs; loadData then finishes normally.
NftTrendRejected(reason) ==
  /\ mounted = "nft"
  /\ pending["getNftTrendData"] > 0
  /\ pending' = Settled("getNftTrendData")
  /\ refs' = [refs EXCEPT !.isLoading = FALSE]
  /\ console' = Logged("Error loading NFT trend data:", reason)
  /\ UNCHANGED <<mounted, route, join, charts, drawCount, timers>>
  /\ UNCHANGED <<seriesVars, filterVars, torn, storeVars, sideVars>>

\* initVolumeChart and initFloorPriceChart: each returns, before it clears,
\* if the series is empty.
initNftCharts ==
  [c \in ChartNames |->
     IF c \in NftCharts /\ refs.trendData # 0 /\ ~torn
     THEN Redrawn(charts[c], refs.trendData) ELSE charts[c]]

NftTimer ==
  /\ mounted = "nft"
  /\ "nftCharts" \in timers
  /\ timers' = timers \ {"nftCharts"}
  /\ charts' = initNftCharts
  /\ drawCount' = IF refs.trendData # 0 THEN Counted ELSE drawCount
  /\ UNCHANGED <<mounted, route, refs, pending, join, console>>
  /\ UNCHANGED <<seriesVars, filterVars, torn, storeVars, sideVars>>

\* A resize handler that would load the data again, as onMounted does.
NftResizeReloading ==
  /\ mounted = "nft"
  /\ pending["getNftMarketMetrics"] < MaxInFlight
  /\ refs' = [refs EXCEPT !.isLoading = TRUE]
  /\ pending' = Issued("getNftMarketMetrics")
  /\ UNCHANGED <<mounted, route, join, charts, drawCount, timers, console>>
  /\ UNCHANGED <<seriesVars, filterVars, torn, storeVars, sideVars>>

\* handleResize
NftResize ==
  /\ mounted = "nft"
  /\ charts' = initNftCharts
  /\ drawCount' = IF refs.trendData # 0 THEN Counted ELSE drawCount
  /\ UNCHANGED <<mounted, route, refs, pending, join, timers, console>>
  /\ UNCHANGED <<seriesVars, filterVars, torn, storeVars, sideVars>>

\* ---- project detail -------------------------------------------------------
ProjectDetailSetup ==
  [isLoading |-> FALSE, error |-> "", project |-> 0, relatedFor |-> 0,
   timeRange |-> "30d"]

ProjectCharts == {"priceChart", "volumeChart"}

\* generateDefaultProject: a project none of the adapter's lists holds.
DefaultProject == MaxId + 2

\* days of generatePriceChart / generateVolumeChart
DaysOf(timeRange) ==
  IF timeRange = "7d" THEN 7 ELSE IF timeRange = "90d" THEN 90 ELSE 30

\* The chart containers are inside the v-else-if="project" branch, after
\* v-if="isLoading" and v-else-if="error".
ProjectChartsRendered(r) == ~r.isLoading /\ r.error = "" /\ r.project # 0 /\ ~torn

\* generatePriceChart and generateVolumeChart with the refs r.
generateProjectCharts(r) ==
  [c \in ChartNames |->
     IF c \in ProjectCharts /\ ProjectChartsRendered(r)
     THEN Redrawn(charts[c], DaysOf(r.timeRange)) ELSE charts[c]]

MountProjectDetail(id) ==
  /\ mounted = "none"
  /\ mounted' = "projectDetail"
  /\ route' = id
  /\ refs' = [ProjectDetailSetup EXCEPT !.isLoading = TRUE, !.error = ""]
  /\ pending' = Issued("getHotProjects")
  /\ UNCHANGED <<join, charts, drawCount, timers, console>>
  /\ UNCHANGED <<seriesVars, filterVars, torn, storeVars, sideVars>>

\* The charts are generated after nextTick but before finally clears
\* isLoading, that is while the template still shows the spinner.
loadProjectDetailFulfilled(projects) ==
  /\ mounted = "projectDetail"
  /\ pending["getHotProjects"] > 0
  /\ pending' = Settled("getHotProjects")
  /\ LET shown == IF Picked(projects, route) # 0 THEN Picked(projects, route)
                  ELSE DefaultProject
         assigned == [refs EXCEPT !.project = shown, !.relatedFor = shown]
     IN  /\ charts' = generateProjectCharts(assigned)
         /\ drawCount' = IF ProjectChartsRendered(assigned) THEN Counted ELSE drawCount
         /\ refs' = [assigned EXCEPT !.isLoading = FALSE]
  /\ UNCHANGED <<mounted, route, join, timers, console>>
  /\ UNCHANGED <<seriesVars, filterVars, torn, storeVars, sideVars>>

loadProjectDetailRejected(reason) ==
  /\ mounted = "projectDetail"
  /\ pending["getHotProjects"] > 0
  /\ pending' = Settled("getHotProjects")
  /\ refs' = [refs EXCEPT !.error = MsgProjectDetail, !.isLoading = FALSE]
  /\ console' = Logged("Error loading project detail:", reason)
  /\ UNCHANGED <<mounted, route, join, charts, drawCount, timers>>
  /\ UNCHANGED <<seriesVars, filterVars, torn, storeVars, sideVars>>

\* A time-range button (rendered with the project); the watcher redraws
\* both charts on nextTick when the value changed.
SetTimeRange(range) ==
  /\ mounted = "projectDetail"
  /\ ProjectChartsRendered(refs)
  /\ range # refs.timeRange
  /\ refs' = [refs EXCEPT !.timeRange = range]
  /\ charts' = generateProjectCharts(refs')
  /\ drawCount' = Counted
  /\ UNCHANGED <<mounted, route, pending, join, timers, console>>
  /\ UNCHANGED <<seriesVars, filterVars, torn, storeVars, sideVars>>

\* ---- Solana overview ------------------------------------------------------
\* Its two charts draw fixed data: 6 categories and 12 months.
OverviewCharts == {"categoryDistributionChart", "activityTrendChart"}

OverviewPoints(c) == IF c = "categoryDistributionChart" THEN 6 ELSE 12

initOverviewCharts ==
  [c \in ChartNames |->
     IF c \in OverviewCharts /\ ~torn
     THEN Redrawn(charts[c], OverviewPoints(c)) ELSE charts[c]]

MountOverview ==
  /\ mounted = "none"
  /\ mounted' = "overview"
  /\ refs' = NoRefs
  /\ charts' = initOverviewCharts
  /\ drawCount' = Counted
  /\ UNCHANGED <<route, pending, join, timers, console>>
  /\ UNCHANGED <<seriesVars, filterVars, torn, storeVars, sideVars>>

OverviewResize ==
  /\ mounted = "overview"
  /\ charts' = initOverviewCharts
  /\ drawCount' = Counted
  /\ UNCHANGED <<mounted, route, refs, pending, join, timers, console>>
  /\ UNCHANGED <<seriesVars, filterVars, torn, storeVars, sideVars>>

\* ---- the router ------------------------------------------------------------
\* The route leaves the view: its template and its containers are gone and
\* its template refs are null.  No view has an onUnmounted hook: the refs
\* of the instance, its fetches in flight, its timers and its resize
\* listener stay, and the steps of the view go on running on the torn-down
\* instance.
Unmount ==
  /\ mounted # "none"
  /\ ~torn
  /\ torn' = TRUE
  /\ charts' = [c \in ChartNames |-> <<>>]
  /\ drawCount' = 0
  /\ UNCHANGED <<mounted, route, refs, pending, join, timers, console>>
  /\ UNCHANGED <<seriesVars, filterVars, storeVars, sideVars>>

\* The page goes on to its next view: the torn-down instance is followed
\* no further.  The console keeps its last line.
Forgotten ==
  /\ torn
  /\ torn' = FALSE
  /\ mounted' = "none"
  /\ route' = 0
  /\ refs' = NoRefs
  /\ pending' = [c \in AdapterCalls |-> 0]
  /\ join' = <<>>
  /\ timers' = {}
  /\ UNCHANGED <<charts, drawCount, console>>
  /\ UNCHANGED <<seriesVars, filterVars, storeVars, sideVars>>

\* route.params.id: an id the adapter knows, or one it does not.
RouteIds == 1 .. (MaxId + 1)

TimeRanges == {"7d", "30d", "90d"}

Init ==
  /\ SeriesIdle
  /\ FilterIdle
  /\ ViewsIdle

Next ==
  \/ MountSignalHistory
  \/ RefreshSignals
  \/ \E list \in Lists : loadSignalsFulfilled(list)
  \/ \E reason \in Reasons : loadSignalsRejected(reason)
  \/ MountSignals
  \/ \E list \in Lists : SignalsLoadFulfilled(list)
  \/ \E reason \in Reasons : SignalsLoadRejected(reason)
  \/ MountDefi
  \/ \E list \in Lists : DefiFulfilled(list)
  \/ \E reason \in Reasons : DefiRejected(reason)
  \/ \E id \in RouteIds : MountSignalDetail(id)
  \/ \E list \in Lists : loadSignalDetailFulfilled(list)
  \/ \E reason \in Reasons : loadSignalDetailRejected(reason)
  \/ MountMySubscription
  \/ \E list \in Lists : loadSubscriptionDataFulfilled(list)
  \/ \E reason \in Reasons : loadSubscriptionDataRejected(reason)
  \/ \E list \in Lists : MountPaymentHistory(list)
  \/ \E list \in Lists : ApplyFilter(list)
  \/ MountDashboard
  \/ \E id \in Ids : DashboardFetchFulfilled("getDashboardMetrics", <<id>>)
  \/ \E method \in {"getRecentSignals", "getHotProjects"}, list \in Lists :
       DashboardFetchFulfilled(method, list)
  \/ \E method \in DashboardFetches, reason \in Reasons :
       DashboardFetchRejected(method, reason)
  \/ DashboardTimer
  \/ DashboardResize
  \/ MountNft
  \/ \E id \in Ids : NftMetricsFulfilled(id)
  \/ \E reason \in Reasons : NftMetricsRejected(reason)
  \/ \E length \in TrendLengths : NftTrendFulfilled(length)
  \/ \E reason \in Reasons : NftTrendRejected(reason)
  \/ NftTimer
  \/ NftResize
  \/ \E id \in RouteIds : MountProjectDetail(id)
  \/ \E list \in Lists : loadProjectDetailFulfilled(list)
  \/ \E reason \in Reasons : loadProjectDetailRejected(reason)
  \/ \E range \in TimeRanges : SetTimeRange(range)
  \/ MountOverview
  \/ OverviewResize
  \/ Unmount
  \/ Forgotten

Spec == Init /\ [][Next]_vars

(***************************************************************************)
(* Claims about the views (checked under Spec).                            *)
(***************************************************************************)
\* The views whose script declares an error ref (error.data on the dashboard).
ErrorViews ==
  {"history", "signalDetail", "projectDetail", "mySubscription", "payments", "dashboard"}

\* The view shows an error message.
Errored == mounted \in ErrorViews /\ refs.error # ""

\* A step in which a fetch of the mounted view rejects.
FetchRejects ==
  \E reason \in Reasons :
    \/ loadSignalsRejected(reason)
    \/ SignalsLoadRejected(reason)
    \/ DefiRejected(reason)
    \/ loadSignalDetailRejected(reason)
    \/ loadSubscriptionDataRejected(reason)
    \/ NftMetricsRejected(reason)
    \/ NftTrendRejected(reason)
    \/ loadProjectDetailRejected(reason)
    \/ \E method \in DashboardFetches : DashboardFetchRejected(method, reason)

\* C1: whenever a fetch rejects during a view's load, the view ends the
\* step Errored, with a non-empty error message.
C1_RejectionMakesErrored == [][FetchRejects => Errored']_vars

\* The refs of a view other than its loading flag and its error message.
DataOf(r) == [f \in (DOMAIN r) \ {"isLoading", "error"} |-> r[f]]

\* C2: a step in which a load fails changes none of the data fields of the
\* view: only the loading flag and the error message change, so data loaded
\* before stays in place.
C2_FailedLoadKeepsData == [][FetchRejects => DataOf(refs') = DataOf(refs)]_vars

\* The signal history still shows its list after a refresh has failed.
C2_Witness ==
  /\ mounted = "history"
  /\ refs.signals = <<2, 1>>
  /\ refs.error = MsgSignals
  /\ ~refs.isLoading
  /\ console.reason = "timeout"

FulfilledFetches == {join[i].fetch : i \in {j \in 1 .. Len(join) : join[j].ok}}

\* C3: the dashboard issues its three fetches together; isDataLoaded,
\* metrics, recentSignals and hotProjects are set only once all three have
\* fulfilled, and then to what they fulfilled with; if one has rejected,
\* none of the four is set.
C3_JoinedDashboardLoad ==
  mounted = "dashboard" =>
    /\ \A m \in DashboardFetches :
         pending[m] = IF \E i \in 1 .. Len(join) : join[i].fetch = m THEN 0 ELSE 1
    /\ ( \/ refs.isDataLoaded
         \/ refs.metrics # 0
         \/ refs.recentSignals # <<>>
         \/ refs.hotProjects # <<>> ) => FulfilledFetches = DashboardFetches
    /\ FulfilledFetches = DashboardFetches =>
         /\ refs.isDataLoaded
         /\ \A i \in 1 .. 3 :
              /\ join[i].fetch = "getDashboardMetrics" => refs.metrics = join[i].value[1]
              /\ join[i].fetch = "getRecentSignals" => refs.recentSignals = join[i].value
              /\ join[i].fetch = "getHotProjects" => refs.hotProjects = join[i].value
    /\ (\E i \in 1 .. Len(join) : ~join[i].ok) =>
         /\ ~refs.isDataLoaded
         /\ refs.metrics = 0
         /\ refs.recentSignals = <<>>
         /\ refs.hotProjects = <<>>

\* The dashboard is loaded, the hot projects being the last to arrive.
C3_Witness ==
  /\ mounted = "dashboard"
  /\ refs.isDataLoaded
  /\ Len(join) = 3
  /\ join[3].fetch = "getHotProjects"
  /\ refs.hotProjects = <<2, 1>>
  /\ refs.metrics = 2

\* C4: once one of the joined fetches has failed, the error the dashboard
\* records is the reason of the first fetch that failed.
C4_ErrorIsFirstReason ==
  mounted = "dashboard" =>
    \A i \in 1 .. Len(join) :
      (~join[i].ok /\ \A j \in 1 .. (i - 1) : join[j].ok) => refs.error = join[i].reason

\* C4 as amended: at the first failure of a joined fetch the dashboard is
\* Errored with its one fixed message, whatever the reason; the reason of
\* the first fetch that failed is what the load logs to the console, and a
\* later failure changes neither.
C4_FixedMessageFirstReasonLogged ==
  mounted = "dashboard" =>
    \A i \in 1 .. Len(join) :
      (~join[i].ok /\ \A j \in 1 .. (i - 1) : join[j].ok) =>
        /\ refs.error = MsgDashboard
        /\ ~refs.isLoading
        /\ console = [msg |-> "Error loading data:", reason |-> join[i].reason]

\* Two fetches have failed, for different reasons.
C4_Witness ==
  /\ mounted = "dashboard"
  /\ Len(join) = 3
  /\ ~join[2].ok /\ join[2].reason = "network"
  /\ ~join[3].ok /\ join[3].reason = "timeout"
  /\ refs.error = MsgDashboard

\* The views that fetch and draw charts.
ChartViews == {"dashboard", "nft", "projectDetail"}

\* The load of the mounted view has settled: its function has run to the end.
LoadSettled ==
  IF mounted = "dashboard" THEN PromiseAll(join).state # "pending"
  ELSE \A m \in AdapterCalls : pending[m] = 0

\* The load's data are in the refs of the view.
DataApplied ==
  CASE mounted = "dashboard" -> refs.isDataLoaded
    [] mounted = "nft" -> refs.marketMetrics # 0
    [] mounted = "projectDetail" -> refs.project # 0

ErrorEmpty == mounted \in ErrorViews => refs.error = ""

Loaded == DataApplied /\ ErrorEmpty

\* C5: a chart-bearing view is Loading from its load trigger (loading flag
\* set, error cleared) until the fetch settles; from then on the loading
\* flag is cleared and the view is in exactly one of Loaded (data applied,
\* error empty) and Errored (error non-empty).
C5_LoadingThenLoadedOrErrored ==
  mounted \in ChartViews =>
    /\ ~LoadSettled => (refs.isLoading /\ ErrorEmpty)
    /\ LoadSettled =>
         /\ ~refs.isLoading
         /\ Loaded \/ Errored
         /\ ~(Loaded /\ Errored)

\* The containers of the mounted view, and the length of the series each shows.
ViewCharts ==
  CASE mounted = "dashboard" -> DashboardCharts
    [] mounted = "nft" -> NftCharts
    [] mounted = "projectDetail" -> ProjectCharts
    [] mounted = "overview" -> OverviewCharts
    [] OTHER -> {}

SeriesPoints(c) ==
  CASE mounted = "dashboard" -> refs.chartPoints
    [] mounted = "nft" -> refs.trendData
    [] mounted = "projectDetail" -> DaysOf(refs.timeRange)
    [] mounted = "overview" -> OverviewPoints(c)

\* C6: whatever renders a container has had (first draw, redraw on resize,
\* redraw for another time range), it holds the one svg of the latest draw
\* and nothing of an earlier one, with as many primitives as the series has
\* points: drawing a series again leaves the count of a single draw.
C6_ContainerHoldsLatestDraw ==
  /\ \A c \in ChartNames \ ViewCharts : charts[c] = <<>>
  /\ \A c \in ViewCharts :
       /\ Len(charts[c]) <= 1
       /\ drawCount > 0 => Len(charts[c]) = 1
       /\ Len(charts[c]) = 1 => charts[c][1].points = SeriesPoints(c)

\* The project's price chart redrawn for 7 days after an earlier draw.
C6_Witness ==
  /\ mounted = "projectDetail"
  /\ drawCount >= 2
  /\ refs.timeRange = "7d"
  /\ charts["priceChart"] = <<[points |-> 7]>>

\* ---- detail views ---------------------------------------------------------
DetailViews == {"signalDetail", "projectDetail"}

\* The entity a detail view displays (0: none).
Entity == IF mounted = "signalDetail" THEN refs.signal ELSE refs.project

\* C16: for any route id, when a detail load completes, the entity is
\* displayed if it exists and the view falls back to a default entity if
\* none matches, so the view never ends with neither an entity nor an error
\* message.
C16_EntityOrError ==
  (mounted \in DetailViews /\ ~refs.isLoading) => (Entity # 0 \/ refs.error # "")

\* ---- resize ---------------------------------------------------------------
ResizeEvent == DashboardResize \/ NftResize \/ OverviewResize

\* C17: a window-resize event only re-renders: it issues no adapter fetch,
\* does not put the view into Loading and leaves the loaded series data (and
\* every other ref of the view) as it was.
C17_ResizeOnlyRedraws ==
  [][ ResizeEvent =>
        /\ pending' = pending
        /\ refs' = refs
        /\ join' = join
        /\ timers' = timers
        /\ mounted' = mounted ]_vars

\* The loaded dashboard has been redrawn by a resize after its first draw.
C17_Witness ==
  /\ mounted = "dashboard"
  /\ refs.isDataLoaded
  /\ ~refs.isLoading
  /\ "initCharts" \notin timers
  /\ drawCount = MaxDraws
  /\ \A c \in DashboardCharts : charts[c] # <<>>

\* ---- late arrivals --------------------------------------------------------
\* C18: a fetch result, a delayed render timer or a resize event that
\* arrives after its view has been unmounted is never applied to the
\* torn-down view: it changes neither that view's state nor any chart
\* container.
C18_LateArrivalNotApplied ==
  [][ (torn /\ torn') => (refs' = refs /\ charts' = charts) ]_vars

\* ---- retries --------------------------------------------------------------
\* The steps that start a load: a mount, or the user's refresh / apply.
MountStep ==
  \/ MountSignalHistory \/ MountSignals \/ MountDefi \/ MountMySubscription
  \/ MountDashboard \/ MountNft \/ MountOverview
  \/ \E id \in RouteIds : MountSignalDetail(id) \/ MountProjectDetail(id)
  \/ \E list \in Lists : MountPaymentHistory(list)

UserStep == RefreshSignals \/ \E list \in Lists : ApplyFilter(list)

\* The fetches in flight, over all adapter methods.
RECURSIVE InFlightOf(_)
InFlightOf(methods) ==
  IF methods = {} THEN 0
  ELSE LET m == CHOOSE x \in methods : TRUE
       IN  pending[m] + InFlightOf(methods \ {m})

InFlight == InFlightOf(AdapterCalls)

\* C19: there is no automatic retry.  A step that issues a fetch is a mount
\* or an explicit user action (refresh, apply filter), or the one step of a
\* mount's load that goes on from its first fetch, fulfilled, to its second
\* (the NFT view); a fetch that fails leaves one fetch less in flight and
\* issues none, so that no fetch follows a failure until the next mount or
\* user action.
C19_NoAutomaticRetry ==
  [][ /\ (\E m \in AdapterCalls : pending'[m] > pending[m]) =>
           (MountStep \/ UserStep \/ \E id \in Ids : NftMetricsFulfilled(id))
      /\ FetchRejects =>
           /\ \A m \in AdapterCalls : pending'[m] <= pending[m]
           /\ InFlight' = InFlight - 1
      /\ (mounted = "payments" /\ refs' # refs) => (UserStep \/ Forgotten) ]_vars

\* The signal history after a failed load: the error is shown, nothing is
\* in flight, and the view waits for the user's refresh.
C19_Witness ==
  /\ mounted = "history"
  /\ ~torn
  /\ refs.error # ""
  /\ ~refs.isLoading
  /\ console.msg = "Error loading signals:"
  /\ InFlight = 0

(***************************************************************************)
(* SpecStore: the subscription store and the subscription service between  *)
(* it and the adapter (ApiService.get('/commerce/subscriptions')).  One    *)
(* store action runs at a time; the adapter fulfils it with a list of      *)
(* subscriptions or rejects.                                               *)
(***************************************************************************)
MsgUserSubscriptions == "fetching the user's subscriptions failed"
MsgCancel == "cancelling the subscription failed"

\* The lists of subscriptions the adapter delivers.
SubscriptionLists ==
  { <<>>,
    << [id |-> 1, status |-> "active"] >>,
    << [id |-> 1, status |-> "cancelled"] >>,
    << [id |-> 1, status |-> "cancelled"], [id |-> 2, status |-> "active"] >>,
    << [id |-> 2, status |-> "active"], [id |-> 1, status |-> "active"] >> }

\* subscriptions.find(sub => sub.status === 'active') || null, as an id
FindActive(subscriptions) ==
  IF \E i \in 1 .. Len(subscriptions) : subscriptions[i].status = "active"
  THEN subscriptions[CHOOSE i \in 1 .. Len(subscriptions) :
                       /\ subscriptions[i].status = "active"
                       /\ \A j \in 1 .. (i - 1) : subscriptions[j].status # "active"].id
  ELSE 0

\* fetchUserSubscriptions / fetchCurrentSubscription up to the await
StoreDispatched(action) ==
  /\ storeCall.outcome # "pending"
  /\ store' = [store EXCEPT !.loading = TRUE, !.error = ""]
  /\ storeCall' = [action |-> action, outcome |-> "pending"]
  /\ UNCHANGED <<mounted, route, refs, pending, join, charts, drawCount, timers, console, torn>>
  /\ UNCHANGED <<seriesVars, filterVars, sideVars>>

\* fetchUserSubscriptions: the service passes the adapter's list on.
FetchUserSubscriptionsFulfilled(subscriptions) ==
  /\ storeCall = [action |-> "fetchUserSubscriptions", outcome |-> "pending"]
  /\ store' = [store EXCEPT !.subscriptions = subscriptions,
                            !.currentSubscription = FindActive(subscriptions),
                            !.loading = FALSE]
  /\ storeCall' = [storeCall EXCEPT !.outcome = "fulfilled"]
  /\ UNCHANGED <<mounted, route, refs, pending, join, charts, drawCount, timers, console, torn>>
  /\ UNCHANGED <<seriesVars, filterVars, sideVars>>

\* fetchUserSubscriptions: the service passes the rejection on; the store
\* sets its error and throws again.
FetchUserSubscriptionsRejected(reason) ==
  /\ storeCall = [action |-> "fetchUserSubscriptions", outcome |-> "pending"]
  /\ store' = [store EXCEPT !.error = MsgUserSubscriptions, !.loading = FALSE]
  /\ storeCall' = [storeCall EXCEPT !.outcome = "rejected"]
  /\ UNCHANGED <<mounted, route, refs, pending, join, charts, drawCount, timers, console, torn>>
  /\ UNCHANGED <<seriesVars, filterVars, sideVars>>

\* fetchCurrentSubscription: getCurrentSubscription finds the active one.
FetchCurrentSubscriptionFulfilled(subscriptions) ==
  /\ storeCall = [action |-> "fetchCurrentSubscription", outcome |-> "pending"]
  /\ store' = [store EXCEPT !.currentSubscription = FindActive(subscriptions),
                            !.loading = FALSE]
  /\ storeCall' = [storeCall EXCEPT !.outcome = "fulfilled"]
  /\ UNCHANGED <<mounted, route, refs, pending, join, charts, drawCount, timers, console, torn>>
  /\ UNCHANGED <<seriesVars, filterVars, sideVars>>

\* fetchCurrentSubscription when the adapter rejects: getCurrentSubscription
\* catches, logs and returns null, and the store assigns that null.
FetchCurrentSubscriptionRejected(reason) ==
  /\ storeCall = [action |-> "fetchCurrentSubscription", outcome |-> "pending"]
  /\ console' = Logged("getCurrentSubscription failed:", reason)
  /\ store' = [store EXCEPT !.currentSubscription = 0, !.loading = FALSE]
  /\ storeCall' = [storeCall EXCEPT !.outcome = "fulfilled"]
  /\ UNCHANGED <<mounted, route, refs, pending, join, charts, drawCount, timers, torn>>
  /\ UNCHANGED <<seriesVars, filterVars, sideVars>>

\* cancelSubscription(subscriptionId) when the service call resolves; the
\* id is the one the action was called with.
CancelSubscriptionFulfilled(subscriptionId) ==
  /\ storeCall = [action |-> "cancelSubscription", outcome |-> "pending"]
  /\ LET subs == store.subscriptions
         found == \E i \in 1 .. Len(subs) : subs[i].id = subscriptionId
         index == CHOOSE i \in 1 .. Len(subs) :
                    /\ subs[i].id = subscriptionId
                    /\ \A j \in 1 .. (i - 1) : subs[j].id # subscriptionId
     IN  store' =
           IF found
           THEN [store EXCEPT !.subscriptions = [subs EXCEPT ![index].status = "cancelled"],
                              !.currentSubscription = IF @ = subscriptionId THEN 0 ELSE @,
                              !.loading = FALSE]
           ELSE [store EXCEPT !.loading = FALSE]
  /\ storeCall' = [storeCall EXCEPT !.outcome = "fulfilled"]
  /\ UNCHANGED <<mounted, route, refs, pending, join, charts, drawCount, timers, console, torn>>
  /\ UNCHANGED <<seriesVars, filterVars, sideVars>>

\* cancelSubscription when the service call rejects.
CancelSubscriptionRejected(reason) ==
  /\ storeCall = [action |-> "cancelSubscription", outcome |-> "pending"]
  /\ store' = [store EXCEPT !.error = MsgCancel, !.loading = FALSE]
  /\ storeCall' = [storeCall EXCEPT !.outcome = "rejected"]
  /\ UNCHANGED <<mounted, route, refs, pending, join, charts, drawCount, timers, console, torn>>
  /\ UNCHANGED <<seriesVars, filterVars, sideVars>>

StoreActions == {"fetchUserSubscriptions", "fetchCurrentSubscription", "cancelSubscription"}

InitStore ==
  /\ SeriesIdle
  /\ FilterIdle
  /\ ViewsIdle

NextStore ==
  \/ \E action \in StoreActions : StoreDispatched(action)
  \/ \E subscriptions \in SubscriptionLists : FetchUserSubscriptionsFulfilled(subscriptions)
  \/ \E reason \in Reasons : FetchUserSubscriptionsRejected(reason)
  \/ \E subscriptions \in SubscriptionLists : FetchCurrentSubscriptionFulfilled(subscriptions)
  \/ \E reason \in Reasons : FetchCurrentSubscriptionRejected(reason)
  \/ \E subscriptionId \in 1 .. 2 : CancelSubscriptionFulfilled(subscriptionId)
  \/ \E reason \in Reasons : CancelSubscriptionRejected(reason)

SpecStore == InitStore /\ [][NextStore]_vars

\* The adapter rejects the fetch of the store action in progress.
StoreFetchRejects ==
  \E reason \in Reasons :
    FetchUserSubscriptionsRejected(reason) \/ FetchCurrentSubscriptionRejected(reason)

\* C20: the layers between the adapter and the owning view never catch an
\* adapter error: the failure propagates unchanged, so that when the
\* subscriptions fetch fails the store action rejects, the store's error is
\* set and currentSubscription keeps its prior value.
C20_AdapterFailurePropagates ==
  [][ StoreFetchRejects =>
        /\ storeCall'.outcome = "rejected"
        /\ store'.error # ""
        /\ store'.currentSubscription = store.currentSubscription ]_vars

(***************************************************************************)
(* The x axes of the charts.  A band axis (d3.scaleBand) has one tick per  *)
(* point, known by the index of the point; a time axis (d3.scaleTime) has  *)
(* the ticks d3 picks for the time span of the data.                       *)
(***************************************************************************)
\* axisBottom of a band scale over n distinct labels: one tick per point.
BandTicks(n) == 0 .. (n - 1)

\* selectAll('g.tick').each((_, i) => ...remove()): every 3rd tick is kept
\* above 30 points, every 2nd above 14.
Thinned(ticks, n) ==
  IF n > 30 THEN {i \in ticks : i % 3 = 0}
  ELSE IF n > 14 THEN {i \in ticks : i % 2 = 0}
  ELSE ticks

\* The tick intervals of d3's time scale from 12 hours to a month, in
\* hours; the fields are the unit and the length of the interval.
TickIntervals ==
  << [unit |-> "hour", hours |-> 12], [unit |-> "day", hours |-> 24],
     [unit |-> "day2", hours |-> 48], [unit |-> "week", hours |-> 168],
     [unit |-> "month", hours |-> 720] >>

\* scale.ticks() with the default count of 10: target = span / 10, i the
\* first interval longer than the target, and the interval is i - 1 when
\* target / interval[i - 1] < interval[i] / target, else i.
TickInterval(span) ==
  LET i == CHOOSE k \in 2 .. Len(TickIntervals) :
             /\ 10 * TickIntervals[k].hours > span
             /\ \A j \in 2 .. (k - 1) : 10 * TickIntervals[j].hours <= span
  IN  IF span * span < 100 * TickIntervals[i - 1].hours * TickIntervals[i].hours
      THEN TickIntervals[i - 1] ELSE TickIntervals[i]

\* The ticks of a time axis over the points of the last n days, the newest
\* at the present time of day on day t: the instants (in hours from the
\* midnight that begins the oldest day) at which an interval of the chosen
\* kind begins.  Half days begin at 0:00 and 12:00, two-day intervals on
\* the odd days of a month, weeks on Sundays.  The time of day is taken in
\* the morning and off the full hour: the window then holds the midnights
\* of all days but the oldest and the noons of all days but the newest (in
\* the afternoon it holds as many noons, those of all days but the oldest).
TimeTicks(n, t) ==
  LET last == MakeDay(t.y, t.m, t.d)
      first == last - (n - 1)
      unit == TickInterval(24 * (n - 1)).unit
      Begins(d) ==
        CASE unit = "day" -> TRUE
          [] unit = "day2" -> (DateFromDay(d).d - 1) % 2 = 0
          [] unit = "week" -> (d + 4) % 7 = 0
          [] unit = "month" -> DateFromDay(d).d = 1
          [] OTHER -> TRUE
  IN  {24 * (d - first) : d \in {e \in (first + 1) .. last : Begins(e)}}
      \cup (IF unit = "hour"
            THEN {24 * (d - first) + 12 : d \in first .. (last - 1)}
            ELSE {})

\* The labels on the x axis of chart c drawn with n points: the NFT charts
\* thin their ticks, the dashboard and overview charts draw the band axis as
\* it is, the project charts draw a time axis as it is.
AxisLabels(c, n) ==
  CASE c \in NftCharts -> Thinned(BandTicks(n), n)
    [] c \in ProjectCharts -> TimeTicks(n, today)
    [] OTHER -> BandTicks(n)

\* The labels the axis of n points is to show: all up to 14 points, every
\* 2nd above 14, every 3rd above 30.
LabelsDue(n) ==
  {i \in 0 .. (n - 1) : i % (IF n > 30 THEN 3 ELSE IF n > 14 THEN 2 ELSE 1) = 0}

TimeAxis(c) == c \in ProjectCharts

\* C21: for a rendered series of n points the x axis shows every label
\* when n <= 14, every 2nd label (indices 0, 2, 4, ...) when 14 < n <= 30
\* and every 3rd (indices 0, 3, 6, ...) when n > 30, in every chart drawn.
\* On a time axis, whose labels are not those of the points, the number of
\* labels is compared.
C21_LabelsDownsampled ==
  \A c \in ViewCharts :
    Len(charts[c]) = 1 =>
      LET n == charts[c][1].points
      IN  IF TimeAxis(c)
          THEN Cardinality(AxisLabels(c, n)) = Cardinality(LabelsDue(n))
          ELSE AxisLabels(c, n) = LabelsDue(n)


(***************************************************************************)
(* The bar charts: SolanaNftView.vue (volume) and SubscriptionPlansView.vue *)
(* (signal trend).  d3.scaleBand lays the bars into the container's width  *)
(* less the margins; a resize of the window draws the chart again from the *)
(* same data with the container's new clientWidth.                         *)
(***************************************************************************)
MaxBars == 8          \* most bars a chart is drawn with

\* const margin = { top: 20, right: 20, bottom: 40 / 30, left: 40 }
margin == [right |-> 20, left |-> 40]

\* .padding(0.2) of the volume chart, .padding(0.1) of the signal trend
\* chart, in tenths.
Padding(chart) == IF chart = "volumeChart" THEN 2 ELSE 1

\* A range that ignores the margins.
BarRangeOfContainer(chart, width) == [start |-> 0, stop |-> width]

\* .range([margin.left, width - margin.right]) of the volume chart,
\* .range([0, innerWidth]) with innerWidth = width - margin.left -
\* margin.right of the signal trend chart.
BarRange(chart, width) ==
  IF chart = "volumeChart"
  THEN [start |-> margin.left, stop |-> width - margin.right]
  ELSE [start |-> 0, stop |-> width - margin.left - margin.right]

\* d3.scaleBand's rescale with paddingInner = paddingOuter = padding / 10
\* and round = false: step = (stop - start) / max(1, n - pI + 2 pO),
\* bandwidth = step (1 - pI).  The band width is the fraction num / den.
bandwidth(range, n, padding) ==
  IF 10 * n + padding >= 10
  THEN [num |-> (range.stop - range.start) * (10 - padding), den |-> 10 * n + padding]
  ELSE [num |-> (range.stop - range.start) * (10 - padding), den |-> 10]

\* initVolumeChart / initSignalTrendChart: one rect per datum, each of
\* x.bandwidth() px.
BarChart(chart, n, width, from) ==
  [chart |-> chart, bars |-> n, width |-> width, from |-> from,
   band |-> bandwidth(BarRange(chart, width), n, Padding(chart))]

BarCharts == {"volumeChart", "signalTrendChart"}
Widths == {400, 600, 800}

InitBars ==
  /\ SeriesIdle
  /\ FilterIdle
  /\ ViewsIdle

\* The container gets its first layout.
ContainerLaidOut(width) ==
  /\ clientWidth = 0
  /\ clientWidth' = width
  /\ UNCHANGED drawn
  /\ UNCHANGED <<seriesVars, filterVars, coreVars, notBars>>

\* onMounted: the chart is drawn from its data.
DrawBars(chart, n) ==
  /\ clientWidth # 0
  /\ drawn = NoBars
  /\ drawn' = BarChart(chart, n, clientWidth, 0)
  /\ UNCHANGED clientWidth
  /\ UNCHANGED <<seriesVars, filterVars, coreVars, notBars>>

\* window 'resize': the handler draws the chart again, from the same data,
\* reading the container's clientWidth.
ContainerResized(width) ==
  /\ drawn # NoBars
  /\ width # clientWidth
  /\ clientWidth' = width
  /\ drawn' = BarChart(drawn.chart, drawn.bars, width, clientWidth)
  /\ UNCHANGED <<seriesVars, filterVars, coreVars, notBars>>

\* The view is left.
BarsRemoved ==
  /\ drawn # NoBars
  /\ clientWidth' = 0
  /\ drawn' = NoBars
  /\ UNCHANGED <<seriesVars, filterVars, coreVars, notBars>>

NextBars ==
  \/ \E width \in Widths : ContainerLaidOut(width)
  \/ \E chart \in BarCharts, n \in 1 .. MaxBars : DrawBars(chart, n)
  \/ \E width \in Widths : ContainerResized(width)
  \/ BarsRemoved

SpecBars == InitBars /\ [][NextBars]_vars

\* C22 as stated: a resize of the container from 800px to 400px keeps the
\* number of bars and makes each bar exactly half as wide.
C22_HalfWidthHalfBand ==
  [][ (ContainerResized(400) /\ clientWidth = 800)
      => /\ drawn'.bars = drawn.bars
         /\ 2 * drawn'.band.num * drawn.band.den = drawn.band.num * drawn'.band.den ]_vars

\* C22, amended: a resize of the container keeps the number of bars, and
\* the band width follows the width inside the margins: band width over
\* (clientWidth - margin.left - margin.right) is the same before and after.
C22_BandFollowsInnerWidth ==
  [][ (\E width \in Widths : ContainerResized(width))
      => /\ drawn'.bars = drawn.bars
         /\ drawn'.band.num * drawn.band.den * (clientWidth - margin.left - margin.right)
            = drawn.band.num * drawn'.band.den * (clientWidth' - margin.left - margin.right) ]_vars

\* A chart drawn at 800px has been drawn again at 400px.
C22_Witness ==
  /\ drawn.bars > 1
  /\ drawn.from = 800
  /\ drawn.width = 400
  /\ clientWidth = 400


(***************************************************************************)
(* The pager of the signal history: currentPage, pageSize and the two      *)
(* buttons under the table.  The search box and the type select are the    *)
(* v-models of the list views above; they leave currentPage alone.         *)
(***************************************************************************)
MaxHistory == 25      \* the longest list getRecentSignals(50) answers with

\* const pageSize = ref(10)
pageSize == 10

\* Math.max / Math.min of two integers
MathMax(a, b) == IF a >= b THEN a ELSE b
MathMin(a, b) == IF a <= b THEN a ELSE b

\* Math.ceil(filteredSignals.length / pageSize)
PageCount(length) == (length + pageSize - 1) \div pageSize

\* Signals of the local database: names and types in turn, one per hour.
SignalNames == << <<"S", "O", "L">>, <<"B", "T", "C">>, <<"E", "T", "H">> >>
SignalTypes == << "DEX", "AMM" >>
SignalsOf(n) ==
  [i \in 1 .. n |-> [id |-> i, name |-> SignalNames[(i % 3) + 1],
                     category |-> SignalTypes[(i % 2) + 1], timestamp |-> i]]
HistorySizes == {0, 5, 12, MaxHistory}

\* filteredSignals.length of the signal history
HistoryLength == Len(filteredHistory(items, searchTerm, selectedCategory))

\* paginatedSignals: slice(start, end) of the filtered list
paginatedSignals ==
  LET start == (currentPage - 1) * pageSize
      all == filteredHistory(items, searchTerm, selectedCategory)
  IN  [i \in 1 .. MathMax(0, MathMin(start + pageSize, Len(all)) - MathMax(0, start)) |->
         all[MathMax(0, start) + i]]

\* loadSignals when getRecentSignals fulfils: signals and currentPage = 1.
loadHistoryFulfilled(n) ==
  /\ filterView = "history"
  /\ items' = SignalsOf(n)
  /\ currentPage' = 1
  /\ UNCHANGED <<filterView, searchTerm, selectedCategory>>
  /\ UNCHANGED payVars
  /\ UNCHANGED <<seriesVars, coreVars, notPages>>

\* The button of the previous page (disabled on page 1).
PrevPage ==
  /\ filterView = "history"
  /\ currentPage # 1
  /\ currentPage' = MathMax(1, currentPage - 1)
  /\ UNCHANGED filterVars
  /\ UNCHANGED <<seriesVars, coreVars, notPages>>

\* The button of the next page (disabled when currentPage is the count of
\* pages).
NextPage ==
  /\ filterView = "history"
  /\ currentPage # PageCount(HistoryLength)
  /\ currentPage' = MathMin(PageCount(HistoryLength), currentPage + 1)
  /\ UNCHANGED filterVars
  /\ UNCHANGED <<seriesVars, coreVars, notPages>>

\* The view is left; the next mount runs setup() again.
LeaveHistory ==
  /\ filterView = "history"
  /\ filterView' = "none"
  /\ items' = <<>>
  /\ searchTerm' = <<>>
  /\ selectedCategory' = ""
  /\ currentPage' = 1
  /\ UNCHANGED payVars
  /\ UNCHANGED <<seriesVars, coreVars, notPages>>

InitPages ==
  /\ SeriesIdle
  /\ FilterIdle
  /\ ViewsIdle

NextPages ==
  \/ MountListView("history")
  \/ \E n \in HistorySizes : loadHistoryFulfilled(n)
  \/ \E term \in Terms : SetSearchTerm(term)
  \/ \E category \in CategoryOptions("history") : SetCategory(category)
  \/ PrevPage
  \/ NextPage
  \/ LeaveHistory

SpecPages == InitPages /\ [][NextPages]_vars

\* C23: in the signal history currentPage is always one of the pages
\* 1 .. max(1, ceil(filteredSignals.length / pageSize)), also when the
\* filtered list is empty.
C23_PageInRange ==
  filterView = "history"
    => currentPage \in 1 .. MathMax(1, PageCount(HistoryLength))


(***************************************************************************)
(* The auth store (stores/auth.store.ts), AuthService and localStorage.    *)
(* Values: "null" is null, "undefined" is undefined, "{}" an object        *)
(* without fields.  An item of localStorage is absent, a plain string      *)
(* (text) or the JSON text of a value (json).  The async actions overlap:  *)
(* authCalls holds the ones whose await has not settled.                   *)
(***************************************************************************)
Text(str) == [kind |-> "text", of |-> str]
Json(value) == [kind |-> "json", of |-> value]

\* localStorage.setItem(key, value) turns the value into a string.
StringOf(value) == Text(value)

\* JSON.stringify(value): undefined for undefined, else the JSON text.
JSONstringify(value) == IF value = "undefined" THEN "undefined" ELSE value

\* localStorage.setItem('user', JSON.stringify(user))
UserItem(user) ==
  IF JSONstringify(user) = "undefined" THEN StringOf("undefined") ELSE Json(user)

\* JSON.parse(text): the value of a JSON text; anything else throws.
JSONparseThrows(item) == item.kind # "json"
JSONparse(item) == item.of

\* localStorage.getItem('token') || null, the string 'undefined' quoted to
\* tell it from undefined.
TokenOf(item) ==
  IF item = Absent THEN "null"
  ELSE IF item.of = "undefined" THEN "'undefined'" ELSE item.of

\* state(): what the store starts from on a page load.
AuthState(storage) ==
  [user |-> "null", token |-> TokenOf(storage.token),
   isAuthenticated |-> storage.token # Absent, loading |-> FALSE, error |-> "null"]

\* authService.saveAuthData(response)
saveAuthData(response) ==
  [token |-> StringOf(response.access_token), user |-> UserItem(response.user)]

\* authService.clearAuthData()
clearAuthData == [token |-> Absent, user |-> Absent]

\* clearAuth() that leaves the user in the store.
clearAuthKeepingUser(state) ==
  [state EXCEPT !.token = "null", !.isAuthenticated = FALSE, !.error = "null"]

\* clearAuth(), the store's part
clearAuth(state) ==
  [state EXCEPT !.user = "null", !.token = "null", !.isAuthenticated = FALSE,
                !.error = "null"]

\* What /auth/login and /auth/register answer with: an AuthResponse, or the
\* {} ApiService.post answers any url it does not know with.
AuthResponses ==
  { [access_token |-> "t1", user |-> "alice"],
    [access_token |-> "undefined", user |-> "undefined"] }

\* What /auth/me answers with.
UserResponses == {"alice", "{}"}

\* How a request fails: without a response, or with a status.
AuthFailures == {"network", "401", "500"}

MsgLogin == "login failed"
MsgLogout == "logout failed:"
MsgCurrentUser == "fetching the user failed"

AsyncAuthActions == {"login", "register", "logout", "fetchCurrentUser"}

coreQuiet == <<mounted, route, refs, pending, join, charts, drawCount, timers, torn, storeVars>>

InitAuth ==
  /\ SeriesIdle
  /\ FilterIdle
  /\ ViewsIdle

\* A page load: the store is created from localStorage; what was in flight
\* is gone with the page.
AuthStoreCreated ==
  /\ auth' = AuthState(localStorage)
  /\ authCalls' = {}
  /\ UNCHANGED <<localStorage, afterLogout>>
  /\ UNCHANGED <<seriesVars, filterVars, coreVars, notAuth>>

initializeAuth ==
  /\ IF localStorage.user # Absent
     THEN IF JSONparseThrows(localStorage.user)
          THEN /\ auth' = clearAuth(auth)
               /\ localStorage' = clearAuthData
          ELSE /\ auth' = [auth EXCEPT !.user = JSONparse(localStorage.user),
                                       !.isAuthenticated = TRUE]
               /\ UNCHANGED localStorage
     ELSE UNCHANGED <<auth, localStorage>>
  /\ UNCHANGED <<authCalls, afterLogout>>
  /\ UNCHANGED <<seriesVars, filterVars, coreVars, notAuth>>

\* login / register / logout up to the await
AuthDispatched(action) ==
  /\ action \in {"login", "register", "logout"}
  /\ action \notin authCalls
  /\ auth' = [auth EXCEPT !.loading = TRUE, !.error = "null"]
  /\ authCalls' = authCalls \cup {action}
  /\ afterLogout' = IF action = "logout" THEN "called" ELSE "no"
  /\ UNCHANGED localStorage
  /\ UNCHANGED <<seriesVars, filterVars, coreVars, notAuth>>

\* login / register: the response arrives.
LoginFulfilled(action, response) ==
  /\ action \in {"login", "register"} \cap authCalls
  /\ localStorage' = saveAuthData(response)
  /\ auth' = [auth EXCEPT !.user = response.user, !.token = response.access_token,
                          !.isAuthenticated = TRUE, !.loading = FALSE]
  /\ authCalls' = authCalls \ {action}
  /\ UNCHANGED afterLogout
  /\ UNCHANGED <<seriesVars, filterVars, coreVars, notAuth>>

\* login / register: the request fails; the store keeps the message and
\* throws again.
LoginRejected(action, failure) ==
  /\ action \in {"login", "register"} \cap authCalls
  /\ auth' = [auth EXCEPT !.error = MsgLogin, !.loading = FALSE]
  /\ authCalls' = authCalls \ {action}
  /\ UNCHANGED <<localStorage, afterLogout>>
  /\ UNCHANGED <<seriesVars, filterVars, coreVars, notAuth>>

\* logout: the service call succeeded; finally clears.
LogoutFulfilled ==
  /\ "logout" \in authCalls
  /\ localStorage' = clearAuthData
  /\ auth' = [clearAuth(auth) EXCEPT !.loading = FALSE]
  /\ authCalls' = authCalls \ {"logout"}
  /\ afterLogout' = IF afterLogout = "called" THEN "settled" ELSE afterLogout
  /\ UNCHANGED <<seriesVars, filterVars, coreVars, notAuth>>

\* logout: the service call failed; catch logs, finally clears.
LogoutRejected(failure) ==
  /\ "logout" \in authCalls
  /\ console' = Logged(MsgLogout, failure)
  /\ localStorage' = clearAuthData
  /\ auth' = [clearAuth(auth) EXCEPT !.loading = FALSE]
  /\ authCalls' = authCalls \ {"logout"}
  /\ afterLogout' = IF afterLogout = "called" THEN "settled" ELSE afterLogout
  /\ UNCHANGED <<seriesVars, filterVars, coreQuiet, notAuth>>

\* clearAuth() called on its own
ClearAuth ==
  /\ localStorage' = clearAuthData
  /\ auth' = clearAuth(auth)
  /\ UNCHANGED <<authCalls, afterLogout>>
  /\ UNCHANGED <<seriesVars, filterVars, coreVars, notAuth>>

\* fetchCurrentUser up to the await; it returns at once when not
\* authenticated.
FetchCurrentUserDispatched ==
  /\ "fetchCurrentUser" \notin authCalls
  /\ auth.isAuthenticated
  /\ auth' = [auth EXCEPT !.loading = TRUE, !.error = "null"]
  /\ authCalls' = authCalls \cup {"fetchCurrentUser"}
  /\ UNCHANGED <<localStorage, afterLogout>>
  /\ UNCHANGED <<seriesVars, filterVars, coreVars, notAuth>>

FetchCurrentUserFulfilled(user) ==
  /\ "fetchCurrentUser" \in authCalls
  /\ auth' = [auth EXCEPT !.user = user, !.loading = FALSE]
  /\ localStorage' = [localStorage EXCEPT !.user = UserItem(user)]
  /\ authCalls' = authCalls \ {"fetchCurrentUser"}
  /\ UNCHANGED afterLogout
  /\ UNCHANGED <<seriesVars, filterVars, coreVars, notAuth>>

\* fetchCurrentUser: the request fails; a 401 clears the session (and the
\* message just set); the store throws again.
FetchCurrentUserRejected(failure) ==
  /\ "fetchCurrentUser" \in authCalls
  /\ IF failure = "401"
     THEN /\ auth' = [clearAuth(auth) EXCEPT !.loading = FALSE]
          /\ localStorage' = clearAuthData
     ELSE /\ auth' = [auth EXCEPT !.error = MsgCurrentUser, !.loading = FALSE]
          /\ UNCHANGED localStorage
  /\ authCalls' = authCalls \ {"fetchCurrentUser"}
  /\ UNCHANGED afterLogout
  /\ UNCHANGED <<seriesVars, filterVars, coreVars, notAuth>>

NextAuth ==
  \/ AuthStoreCreated
  \/ initializeAuth
  \/ \E action \in {"login", "register", "logout"} : AuthDispatched(action)
  \/ \E action \in {"login", "register"}, response \in AuthResponses :
       LoginFulfilled(action, response)
  \/ \E action \in {"login", "register"}, failure \in AuthFailures :
       LoginRejected(action, failure)
  \/ LogoutFulfilled
  \/ \E failure \in AuthFailures : LogoutRejected(failure)
  \/ ClearAuth
  \/ FetchCurrentUserDispatched
  \/ \E user \in UserResponses : FetchCurrentUserFulfilled(user)
  \/ \E failure \in AuthFailures : FetchCurrentUserRejected(failure)

SpecAuth == InitAuth /\ [][NextAuth]_vars

LogoutSettles == LogoutFulfilled \/ \E failure \in AuthFailures : LogoutRejected(failure)

\* C24: when logout() settles, whether its service call succeeded or
\* failed, the store has user = null, token = null, isAuthenticated = false
\* and loading = false, and localStorage holds neither 'token' nor 'user'.
C24_LogoutClearsSession ==
  [][ LogoutSettles
      => /\ auth'.user = "null"
         /\ auth'.token = "null"
         /\ auth'.isAuthenticated = FALSE
         /\ auth'.loading = FALSE
         /\ localStorage'.token = Absent
         /\ localStorage'.user = Absent ]_vars

\* A logout whose service call failed has settled while the fetch of a
\* signed-in user is still in flight.
C24_Witness ==
  /\ afterLogout = "settled"
  /\ console.msg = MsgLogout
  /\ authCalls = {"fetchCurrentUser"}
  /\ auth.user = "null"
  /\ auth.loading = FALSE
  /\ localStorage.user = Absent

\* C25: once every call has settled after a logout, the store's user is
\* null and localStorage has no 'user': a response that arrives late never
\* restores user data.
C25_LateResponseRestoresNothing ==
  (afterLogout = "settled" /\ authCalls = {})
    => (auth.user = "null" /\ localStorage.user = Absent)

\* C26: isAuthenticated is true exactly when token is non-null.
C26_AuthenticatedIffToken ==
  auth.isAuthenticated <=> (auth.token # "null")


\* C30, for the auth store: loading is true whenever at least one async
\* action is in flight, and false once all have settled.
C30_LoadingIffInFlight ==
  auth.loading <=> (authCalls # {})


(***************************************************************************)
(* The payment store (stores/payment.store.ts) and PaymentService.  One    *)
(* action runs at a time here.  The service passes on what ApiService      *)
(* answers: a value of the declared type, or {} (ApiService answers {} to  *)
(* every url it has no branch for), or a rejection.                        *)
(***************************************************************************)
MaxMethods == 2       \* most payment methods the backend answers with

MethodIds == 1 .. (MaxMethods + 1)

\* The lists getPaymentMethods answers with: distinct ids, at most one
\* default.
MethodLists ==
  { l \in UNION { [1 .. k -> [id : MethodIds, is_default : BOOLEAN]] : k \in 0 .. MaxMethods } :
      /\ \A i, j \in 1 .. Len(l) : i # j => l[i].id # l[j].id
      /\ Cardinality({i \in 1 .. Len(l) : l[i].is_default}) <= 1 }

MethodResponses == {Arr(l) : l \in MethodLists} \cup {Obj}
HistoryResponses == {Arr(<<>>), Arr(<<1>>), Obj}

MsgPay == "the payment store's action failed"

\* Array.prototype.find(method => method.is_default) || null
FindDefault(list) ==
  IF \E i \in 1 .. Len(list) : list[i].is_default
  THEN list[CHOOSE i \in 1 .. Len(list) :
              /\ list[i].is_default
              /\ \A j \in 1 .. (i - 1) : ~list[j].is_default]
  ELSE NoMethod

\* The catch and finally blocks of every action: message, throw, loading.
PayFailed(state) == [state EXCEPT !.error = MsgPay, !.loading = FALSE]
PayThrown == [payCall EXCEPT !.outcome = "rejected", !.clean = FALSE]
PayReturned == [payCall EXCEPT !.outcome = "fulfilled"]

\* fetchPaymentMethods after the await: the answer is assigned, then
\* searched; find is not a function of {}.
fetchPaymentMethods(state, response) ==
  IF response.array
  THEN [state EXCEPT !.paymentMethods = response,
                     !.defaultPaymentMethod = FindDefault(response.of),
                     !.loading = FALSE]
  ELSE PayFailed([state EXCEPT !.paymentMethods = response])

\* addPaymentMethod after the await: push, then the default.
addPaymentMethod(state, set_as_default, paymentMethod) ==
  LET pushed == Append(state.paymentMethods.of, paymentMethod)
  IN  IF state.paymentMethods.array
      THEN [state EXCEPT !.paymentMethods = Arr(pushed),
                         !.defaultPaymentMethod =
                            IF set_as_default \/ Len(pushed) = 1 THEN paymentMethod ELSE @,
                         !.loading = FALSE]
      ELSE PayFailed(state)

\* deletePaymentMethod after the await: filter, then the default.
deletePaymentMethod(state, paymentMethodId) ==
  LET Other(method) == method.id # paymentMethodId
      left == SelectSeq(state.paymentMethods.of, Other)
  IN  IF state.paymentMethods.array
      THEN [state EXCEPT !.paymentMethods = Arr(left),
                         !.defaultPaymentMethod =
                            IF @.id = paymentMethodId
                            THEN (IF left = <<>> THEN NoMethod ELSE left[1])
                            ELSE @,
                         !.loading = FALSE]
      ELSE PayFailed(state)

\* setDefaultPaymentMethod after the await: map, then the default.
setDefaultPaymentMethod(state, paymentMethodId, updatedMethod) ==
  LET list == state.paymentMethods.of
  IN  IF state.paymentMethods.array
      THEN [state EXCEPT !.paymentMethods =
                            Arr([i \in 1 .. Len(list) |->
                                   [list[i] EXCEPT !.is_default = (list[i].id = paymentMethodId)]]),
                         !.defaultPaymentMethod = updatedMethod,
                         !.loading = FALSE]
      ELSE PayFailed(state)

PayActions ==
  {"fetchPaymentMethods", "addPaymentMethod", "deletePaymentMethod",
   "setDefaultPaymentMethod", "fetchPaymentHistory"}

\* The ids of the methods the store holds.
HeldIds == {payStore.paymentMethods.of[i].id : i \in 1 .. Len(payStore.paymentMethods.of)}

InitPay ==
  /\ SeriesIdle
  /\ FilterIdle
  /\ ViewsIdle

\* An action up to its await.  arg: the method's id (delete, set default),
\* 1 for set_as_default (add).
PayDispatched(action, arg) ==
  /\ payCall.outcome # "pending"
  /\ CASE action \in {"deletePaymentMethod", "setDefaultPaymentMethod"} -> arg \in HeldIds
       [] action = "addPaymentMethod" ->
            arg \in {0, 1} /\ Len(payStore.paymentMethods.of) < MaxMethods
       [] OTHER -> arg = 0
  /\ payStore' = [payStore EXCEPT !.loading = TRUE, !.error = "null"]
  /\ payCall' = [payCall EXCEPT !.action = action, !.arg = arg, !.outcome = "pending"]
  /\ UNCHANGED <<seriesVars, filterVars, coreVars, notPay>>

Awaiting(action) == payCall.action = action /\ payCall.outcome = "pending"

FetchPaymentMethodsAnswered(response) ==
  /\ Awaiting("fetchPaymentMethods")
  /\ payStore' = fetchPaymentMethods(payStore, response)
  /\ payCall' = IF payStore'.error = "null" THEN PayReturned ELSE PayThrown
  /\ UNCHANGED <<seriesVars, filterVars, coreVars, notPay>>

\* The backend makes the new method the default when asked to, and when it
\* is the first one.
AddPaymentMethodAnswered(id) ==
  /\ Awaiting("addPaymentMethod")
  /\ id \notin HeldIds
  /\ payStore' = addPaymentMethod(payStore, payCall.arg = 1,
                    [id |-> id, is_default |-> (payCall.arg = 1 \/ HeldIds = {})])
  /\ payCall' = IF payStore'.error = "null" THEN PayReturned ELSE PayThrown
  /\ UNCHANGED <<seriesVars, filterVars, coreVars, notPay>>

DeletePaymentMethodAnswered ==
  /\ Awaiting("deletePaymentMethod")
  /\ payStore' = deletePaymentMethod(payStore, payCall.arg)
  /\ payCall' = IF payStore'.error = "null" THEN PayReturned ELSE PayThrown
  /\ UNCHANGED <<seriesVars, filterVars, coreVars, notPay>>

SetDefaultPaymentMethodAnswered ==
  /\ Awaiting("setDefaultPaymentMethod")
  /\ payStore' = setDefaultPaymentMethod(payStore, payCall.arg,
                    [id |-> payCall.arg, is_default |-> TRUE])
  /\ payCall' = IF payStore'.error = "null" THEN PayReturned ELSE PayThrown
  /\ UNCHANGED <<seriesVars, filterVars, coreVars, notPay>>

\* fetchPaymentHistory: the answer is assigned as it is.
FetchPaymentHistoryAnswered(response) ==
  /\ Awaiting("fetchPaymentHistory")
  /\ payStore' = [payStore EXCEPT !.payments = response, !.loading = FALSE]
  /\ payCall' = PayReturned
  /\ UNCHANGED <<seriesVars, filterVars, coreVars, notPay>>

\* The request of any action rejects.
PayRejected(reason) ==
  /\ payCall.outcome = "pending"
  /\ payStore' = PayFailed(payStore)
  /\ payCall' = PayThrown
  /\ UNCHANGED <<seriesVars, filterVars, coreVars, notPay>>

\* reset(), and a new session.
PayReset ==
  /\ payCall.outcome # "pending"
  /\ payStore' = [payStore EXCEPT !.paymentMethods = Arr(<<>>), !.payments = Arr(<<>>),
                                  !.defaultPaymentMethod = NoMethod, !.error = "null"]
  /\ payCall' = [action |-> "none", arg |-> 0, outcome |-> "none", clean |-> TRUE]
  /\ UNCHANGED <<seriesVars, filterVars, coreVars, notPay>>

NextPay ==
  \/ \E action \in PayActions, arg \in 0 .. (MaxMethods + 1) : PayDispatched(action, arg)
  \/ \E response \in MethodResponses : FetchPaymentMethodsAnswered(response)
  \/ \E id \in MethodIds : AddPaymentMethodAnswered(id)
  \/ DeletePaymentMethodAnswered
  \/ SetDefaultPaymentMethodAnswered
  \/ \E response \in HistoryResponses : FetchPaymentHistoryAnswered(response)
  \/ \E reason \in Reasons : PayRejected(reason)
  \/ PayReset

SpecPay == InitPay /\ [][NextPay]_vars

\* C27: a fetch action of a store that fails, for any reason, a response of
\* unexpected shape included, sets a non-empty error, throws again, clears
\* loading and leaves the data fields as they were.
C27_FailedFetchKeepsData ==
  [][ (payCall.action \in {"fetchPaymentMethods", "fetchPaymentHistory"}
       /\ payCall.outcome = "pending" /\ payCall'.outcome = "rejected")
      => /\ payStore'.error # "null"
         /\ payStore'.loading = FALSE
         /\ payStore'.paymentMethods = payStore.paymentMethods
         /\ payStore'.defaultPaymentMethod = payStore.defaultPaymentMethod
         /\ payStore'.payments = payStore.payments ]_vars

\* C29: after successful fetchPaymentMethods, addPaymentMethod,
\* deletePaymentMethod and setDefaultPaymentMethod only, at most one entry of
\* paymentMethods has is_default = true, and defaultPaymentMethod is null or
\* the entry that has it.
C29_OneDefault ==
  payCall.clean =>
    LET list == payStore.paymentMethods.of
    IN  /\ Cardinality({i \in 1 .. Len(list) : list[i].is_default}) <= 1
        /\ \/ payStore.defaultPaymentMethod = NoMethod
           \/ \E i \in 1 .. Len(list) :
                list[i].is_default /\ list[i] = payStore.defaultPaymentMethod


\* C28: after cancelSubscription(id) has resolved the store holds no active
\* subscription with that id: currentSubscription is not that subscription,
\* and no entry of subscriptions with that id has the status 'active'.
C28_CancelledNotActive ==
  [][ \A subscriptionId \in 1 .. 2 :
        CancelSubscriptionFulfilled(subscriptionId)
          => /\ store'.currentSubscription # subscriptionId
             /\ \A i \in 1 .. Len(store'.subscriptions) :
                  store'.subscriptions[i].id = subscriptionId
                    => store'.subscriptions[i].status # "active" ]_vars

====
